---- MODULE Spec2Model ----
(***************************************************************************)
(* Translation result cache (skills/translation/scripts/cache.py) and its  *)
(* key derivation (skills/translation/scripts/utils.py).                    *)
(*                                                                         *)
(* A Python str is a sequence of one-character strings; the control        *)
(* characters are written "CR", "LF" and "TAB".  None is the empty         *)
(* sequence <<>> and a returned value v is <<v>>.                           *)
(***************************************************************************)
EXTENDS Integers, Sequences, FiniteSets, TLC

(***************************************************************************)
(* Bounds of the model.                                                    *)
(***************************************************************************)
\* the clock runs from 0 to MaxTime
MaxTime == 2
\* max_size is drawn from 1..MaxSize
MaxSize == 2
\* the ttl every instance is constructed with
Ttl == 1
\* get calls counted per instance (caps the hits and misses counters)
MaxGets == 2
\* events of the environment (medium failures, damaged files) per behaviour
MaxFaults == 1

(***************************************************************************)
(* str helpers                                                             *)
(***************************************************************************)
UpperChars == <<"A","B","C","D","E","F","G","H","I","J","K","L","M",
                "N","O","P","Q","R","S","T","U","V","W","X","Y","Z">>
LowerChars == <<"a","b","c","d","e","f","g","h","i","j","k","l","m",
                "n","o","p","q","r","s","t","u","v","w","x","y","z">>

\* str.lower() on one character
LowerChar(c) ==
    IF \E i \in 1..26 : UpperChars[i] = c
    THEN LowerChars[CHOOSE i \in 1..26 : UpperChars[i] = c]
    ELSE c

\* str.lower()
Lower(s) == [i \in 1..Len(s) |-> LowerChar(s[i])]

\* the characters str.strip() and the regex class \s treat as whitespace
IsSpace(c) == c \in {" ", "LF", "CR", "TAB"}

RECURSIVE LStrip(_)
LStrip(s) == IF s # <<>> /\ IsSpace(Head(s)) THEN LStrip(Tail(s)) ELSE s

RECURSIVE RStrip(_)
RStrip(s) ==
    IF s # <<>> /\ IsSpace(s[Len(s)]) THEN RStrip(SubSeq(s, 1, Len(s) - 1)) ELSE s

\* str.strip()
Strip(s) == RStrip(LStrip(s))

\* re.sub(r'\s+', ' ', s): every maximal run of whitespace becomes one space
RECURSIVE CollapseSpaces(_)
CollapseSpaces(s) ==
    IF s = <<>> THEN <<>>
    ELSE IF IsSpace(Head(s))
         THEN <<" ">> \o CollapseSpaces(LStrip(s))
         ELSE <<Head(s)>> \o CollapseSpaces(Tail(s))

\* the Python test `p in s` on two strs
Contains(p, s) ==
    \E i \in 1..(Len(s) - Len(p) + 1) : SubSeq(s, i, i + Len(p) - 1) = p

\* the first index of character c in s, 0 when absent
RECURSIVE IndexOf(_, _)
IndexOf(c, s) ==
    IF s = <<>> THEN 0
    ELSE IF Head(s) = c THEN 1
    ELSE LET r == IndexOf(c, Tail(s)) IN IF r = 0 THEN 0 ELSE r + 1

\* sep.join(parts)
RECURSIVE Join(_, _)
Join(sep, parts) ==
    IF parts = <<>> THEN <<>>
    ELSE IF Len(parts) = 1 THEN parts[1]
    ELSE parts[1] \o sep \o Join(sep, Tail(parts))

(***************************************************************************)
(* utils.py                                                                *)
(***************************************************************************)
LANGUAGE_NAMES ==
    { <<"e","n">>, <<"z","h">>, <<"j","a">>, <<"k","o">>, <<"e","s">>,
      <<"f","r">>, <<"d","e">>, <<"i","t">>, <<"p","t">>, <<"r","u">>,
      <<"a","r">>, <<"h","i">>, <<"t","h">>, <<"v","i">>, <<"i","d">>,
      <<"n","l">>, <<"p","l">>, <<"t","r">>, <<"s","v">>, <<"d","a">>,
      <<"f","i">>, <<"n","o">>, <<"c","s">>, <<"h","u">>, <<"r","o">>,
      <<"e","l">>, <<"h","e">>, <<"u","k">>, <<"b","g">>, <<"h","r">>,
      <<"s","k">>, <<"s","l">>, <<"e","t">>, <<"l","v">>, <<"l","t">>,
      <<"m","t">>, <<"g","a">>, <<"c","y">>, <<"a","u","t","o">> }

\* the alias table of normalize_language_code: aliases.get(code, code)
Aliases(code) ==
    IF code \in { <<"z","h","-","c","n">>, <<"z","h","-","t","w">>,
                  <<"z","h","-","h","a","n","s">>, <<"z","h","-","h","a","n","t">> }
    THEN <<"z","h">>
    ELSE IF code \in { <<"e","n","-","u","s">>, <<"e","n","-","g","b">> }
    THEN <<"e","n">>
    ELSE code

normalize_language_code(code) ==
    IF code = <<>> THEN <<"a","u","t","o">>
    ELSE LET c == Strip(Lower(code))
             dash == IndexOf("-", c)
             base_code == SubSeq(c, 1, dash - 1)
         IN IF dash > 0 /\ base_code \in LANGUAGE_NAMES
            THEN base_code
            ELSE Aliases(c)

preprocess_text(text) ==
    IF text = <<>> THEN <<>> ELSE CollapseSpaces(Strip(text))

\* the options of the allow-list, in the order json.dumps(sort_keys=True) emits them
RelevantOptionNames == <<"domain", "formality", "preserve_formatting">>

\* the name of an option as the characters json.dumps writes between the quotes
OptionNameChars(n) ==
    CASE n = "domain" -> <<"d","o","m","a","i","n">>
      [] n = "formality" -> <<"f","o","r","m","a","l","i","t","y">>
      [] n = "preserve_formatting" ->
            <<"p","r","e","s","e","r","v","e","_",
              "f","o","r","m","a","t","t","i","n","g">>
      [] n = "glossary" -> <<"g","l","o","s","s","a","r","y">>

\* json.dumps of a str value: quoted, with the quote and the backslash escaped
RECURSIVE JsonEscape(_)
JsonEscape(s) ==
    IF s = <<>> THEN <<>>
    ELSE (IF Head(s) \in {"\"", "\\"} THEN <<"\\", Head(s)>> ELSE <<Head(s)>>)
         \o JsonEscape(Tail(s))

\* options (**options) is a sequence of <<name, value>> pairs, value a str
HasOption(options, n) == \E i \in 1..Len(options) : options[i][1] = n

OptionValue(options, n) ==
    options[CHOOSE i \in 1..Len(options) : options[i][1] = n][2]

\* json.dumps(relevant_options, sort_keys=True) for str-valued options:
\* {"domain": "x", "formality": "y"}
RECURSIVE JsonItems(_, _)
JsonItems(names, options) ==
    IF names = <<>> THEN <<>>
    ELSE LET n == Head(names)
             rest == JsonItems(Tail(names), options)
         IN IF HasOption(options, n)
            THEN << <<"\"">> \o OptionNameChars(n) \o <<"\"", ":", " ", "\"">>
                    \o JsonEscape(OptionValue(options, n)) \o <<"\"">> >> \o rest
            ELSE rest

\* mutant of JsonDumps: every option is dumped, not only the allow-listed ones
JsonDumps_all(options) ==
    <<"{">> \o Join(<<",", " ">>,
                   [i \in 1..Len(options) |->
                       <<"\"">> \o OptionNameChars(options[i][1]) \o <<"\"", ":", " ", "\"">>
                       \o JsonEscape(options[i][2]) \o <<"\"">>]) \o <<"}">>

JsonDumps(options) ==
    <<"{">> \o Join(<<",", " ">>, JsonItems(RelevantOptionNames, options)) \o <<"}">>

\* the string generate_cache_key hashes
key_string(text, source_lang, target_lang, options) ==
    LET key_parts == << preprocess_text(text),
                        normalize_language_code(source_lang),
                        normalize_language_code(target_lang) >>
        relevant == \E i \in 1..3 : HasOption(options, RelevantOptionNames[i])
    IN Join(<<"|">>,
            IF relevant THEN Append(key_parts, JsonDumps(options)) ELSE key_parts)

\* hashlib.md5(s.encode("utf-8")).hexdigest() on the key strings of the model;
\* a digest is kept as one string, DigestChars gives its characters
Md5Hex(s) ==
    CASE s = <<"h","e","l","l","o","|","e","n","|","z","h">> ->
           "6b84761022d76c9e67a5c84b2650984b"
      [] s = <<"b","y","e","|","e","n","|","f","r">> ->
           "4712ceb57c473d6fe03e579ac21d3a0f"
      [] s = <<"y","e","s","|","z","h","|","d","e">> ->
           "ccb4b0740afc9b4b27b07ed1c0e5ba4e"
      [] s = <<"h","e","l","l","o","|","a","u","t","o","|","z","h">> ->
           "1ef77b835f3886b73403891639269c44"
      [] s = <<"h","e","l","l","o","|","a","u","t","o","|","e","n">> ->
           "a4d6a4e024e4220d386bf476ea7b68f3"
      [] s = <<"h","e","l","l","o","|","e","n","|","e","n">> ->
           "e27bd491bf9043cb19fa763b9c4198f5"

DigestChars(digest) ==
    CASE digest = "6b84761022d76c9e67a5c84b2650984b" ->
           <<"6","b","8","4","7","6","1","0","2","2","d","7","6","c","9","e",
             "6","7","a","5","c","8","4","b","2","6","5","0","9","8","4","b">>
      [] digest = "4712ceb57c473d6fe03e579ac21d3a0f" ->
           <<"4","7","1","2","c","e","b","5","7","c","4","7","3","d","6","f",
             "e","0","3","e","5","7","9","a","c","2","1","d","3","a","0","f">>
      [] digest = "ccb4b0740afc9b4b27b07ed1c0e5ba4e" ->
           <<"c","c","b","4","b","0","7","4","0","a","f","c","9","b","4","b",
             "2","7","b","0","7","e","d","1","c","0","e","5","b","a","4","e">>
      [] digest = "1ef77b835f3886b73403891639269c44" ->
           <<"1","e","f","7","7","b","8","3","5","f","3","8","8","6","b","7",
             "3","4","0","3","8","9","1","6","3","9","2","6","9","c","4","4">>
      [] digest = "a4d6a4e024e4220d386bf476ea7b68f3" ->
           <<"a","4","d","6","a","4","e","0","2","4","e","4","2","2","0","d",
             "3","8","6","b","f","4","7","6","e","a","7","b","6","8","f","3">>
      [] digest = "e27bd491bf9043cb19fa763b9c4198f5" ->
           <<"e","2","7","b","d","4","9","1","b","f","9","0","4","3","c","b",
             "1","9","f","a","7","6","3","b","9","c","4","1","9","8","f","5">>

generate_cache_key(text, source_lang, target_lang, options) ==
    Md5Hex(key_string(text, source_lang, target_lang, options))

(***************************************************************************)
(* Inputs of the model                                                     *)
(***************************************************************************)
NoOptions == <<>>

ReqHello == [text |-> <<"h","e","l","l","o">>, source_lang |-> <<"e","n">>,
             target_lang |-> <<"z","h">>, options |-> NoOptions]
ReqBye == [text |-> <<"b","y","e">>, source_lang |-> <<"e","n">>,
           target_lang |-> <<"f","r">>, options |-> NoOptions]
ReqYes == [text |-> <<"y","e","s">>, source_lang |-> <<"z","h","-","C","N">>,
           target_lang |-> <<"d","e">>, options |-> NoOptions]

\* the hello request with an option outside the allow-list
ReqHelloGlossary == [text |-> <<"h","e","l","l","o">>, source_lang |-> <<"e","n">>,
                     target_lang |-> <<"z","h">>,
                     options |-> << <<"glossary", <<"g">> >> >>]

Requests == {ReqHello, ReqBye, ReqYes}

\* what the Translator passes to the cache besides ReqHello and ReqHelloGlossary:
\* hello with the source language still "auto", and with the default target "en"
Glossary == << <<"glossary", <<"g">> >> >>
TranslatorRequests ==
    [text : {<<"h","e","l","l","o">>},
     source_lang : {<<"a","u","t","o">>, <<"e","n">>},
     target_lang : {<<"z","h">>, <<"e","n">>},
     options : {NoOptions, Glossary}]

\* translated texts: plain ones and one holding a carriage return
Bonjour == <<"o","k">>
Oui == <<"o","u","i">>
WithCR == <<"a","CR","b">>

\* the set(text, source_lang, target_lang, translated) calls of the model
SetInputs == { <<ReqHello, Bonjour>>, <<ReqHello, WithCR>>,
               <<ReqBye, Oui>>, <<ReqYes, Oui>> }

\* clear(pattern) arguments
Patterns == { <<"z","h">>, <<"c","n">>, <<"d">> }

Kinds == {"memory", "file", "sqlite"}

NoReq == [text |-> <<>>, source_lang |-> <<>>, target_lang |-> <<>>,
          options |-> NoOptions]

\* generate_cache_key on the requests of the model, evaluated once
KeyOf ==
    [req \in Requests |->
        generate_cache_key(req.text, req.source_lang, req.target_lang, req.options)]
TranslatorKeyOf ==
    [req \in TranslatorRequests |->
        generate_cache_key(req.text, req.source_lang, req.target_lang, req.options)]

\* key = generate_cache_key(text, source_lang, target_lang, **options)
Key(req) == IF req \in Requests THEN KeyOf[req] ELSE TranslatorKeyOf[req]

\* the threads that share one instance, and the calls each of them makes
NThreads == 2
ThreadCalls == 1
Threads == 1..NThreads

(***************************************************************************)
(* State                                                                   *)
(***************************************************************************)
VARIABLES
    kind,        \* the backend class of the instance
    alive,       \* the constructor has returned an instance
    max_size,    \* TranslationCache.max_size
    ttl,         \* TranslationCache.ttl
    now,         \* time.time()
    stats,       \* TranslationCache.stats : CacheStats
    cache,       \* MemoryCache._cache, in OrderedDict order
    index,       \* FileCache._index, in dict order
    index_file,  \* cache_dir/index.json on disk
    files,       \* cache_dir/<key>.txt on disk: key -> file content
    db,          \* rows of the translations table, in rowid order
    db_file,     \* the database file: "ok", "corrupt" or "missing"
    medium,      \* the storage medium: "ok", "readonly" or "full"
    ret,         \* the outcome of the last call
    recency,     \* history: the stored keys by their last set or hit, oldest first
    fill,        \* history: the distinct keys set since the empty start
    fillOK,      \* history: only sets of new keys have run since the empty start
    gets,        \* history: get calls that returned on this instance
    faults,      \* history: events of the environment so far
    calls,       \* the arguments of the generate_cache_key calls made directly
    derived,     \* the strings those calls hashed, call by call
    threads,     \* the threads that call one instance: where each is in its call
    translator,  \* the Translator over the instance: where it is in translate
    pair         \* a file and a SQLite instance given the same calls, in turns

vars == << kind, alive, max_size, ttl, now, stats, cache, index, index_file,
           files, db, db_file, medium, ret, recency, fill, fillOK, gets, faults,
           calls, derived, threads, translator, pair >>

config == << kind, max_size, ttl, faults, calls, derived, threads >>
memory_state == << cache >>
file_state == << index, index_file, files >>
sqlite_state == << db, db_file >>

None == <<>>
Some(v) == <<v>>

\* a thread: pc is "idle" or "<backend>:<line of cache.py the thread is before>",
\* n the calls it has started, op and req its current or last call, the locals of
\* that call (timestamp, translated, count, oldest_key, and loaded for the value an
\* augmented assignment has read), error the exception its last call raised ("" for none),
\* torn whether its last get saw an index entry without its file
\* the two instances of the comparison.  The variables hold the instance whose
\* turn it is (kind says which); other keeps the counters of the one that waits.
\* turn is "file", "sqlite" (the SQLite instance repeats the call in called) or
\* "switch"; answer is what the file instance returned (the result of a get, the
\* count of a clear); same says that every call so far returned the same on
\* both, tied that a set has stored an entry at the timestamp of another one
NoPair ==
    [turn |-> "file", called |-> <<"none">>, answer |-> <<>>, same |-> TRUE,
     tied |-> FALSE, other |-> [stats |-> [total_entries |-> 0, hits |-> 0, misses |-> 0],
                                gets |-> 0]]

IdleThread ==
    [pc |-> "idle", n |-> 0, op |-> "none", req |-> NoReq, timestamp |-> 0,
     translated |-> <<>>, count |-> 0, loaded |-> 0, oldest_key |-> "",
     error |-> "", torn |-> FALSE]

\* the Translator over the instance.  pc is "idle" or the line of translator.py
\* the call is before; asked is the call being made or made last, lookup the
\* arguments its cache.get was called with, source the local source (which line
\* 437 reassigns), translated the text the provider returned.  Of the last call
\* that ended: path is the way it took ("blank", "invalid", "hit", "miss" through
\* the provider with the cache, "direct" through the provider without), out what
\* the caller got (a result with text and cached, or the exception raised),
\* finished the clock and the environment's events when it ended.
\* provider_calls counts provider.translate, n the calls of translate and
\* translate_batch.  batch holds the locals of translate_batch: its arguments inp,
\* source and target, the loop positions i (in texts) and j (in uncached_indices),
\* results, cached_results (None where i is not in the dict) and uncached_indices;
\* list positions count from 1.
NoCall == [text |-> <<>>, source_lang |-> None, target_lang |-> None,
           use_cache |-> FALSE, options |-> <<>>]
NoOutcome == [kind |-> "none", text |-> <<>>, cached |-> FALSE, error |-> "",
              results |-> <<>>]
NoBatch ==
    [inp |-> [texts |-> <<>>, source_lang |-> None, target_lang |-> None,
              use_cache |-> FALSE, options |-> <<>>],
     source |-> <<>>, target |-> <<>>, i |-> 0, j |-> 0, results |-> <<>>,
     cached_results |-> <<>>, uncached_indices |-> <<>>]
IdleTranslator ==
    [pc |-> "idle", asked |-> NoCall,
     lookup |-> [text |-> <<>>, source_lang |-> <<>>, target_lang |-> <<>>,
                 options |-> <<>>],
     source |-> <<>>, translated |-> <<>>, path |-> "none", out |-> NoOutcome,
     finished |-> <<0, 0>>, provider_calls |-> 0, n |-> 0, batch |-> NoBatch]

\* the record of a call: what was called with what, the branch the code took, what
\* it returned (result of get, count of clear), whether it raised, the keys it
\* evicted for capacity or swept at construction, and for a set the clock at the
\* call
Ret(op, req, translated, pattern, path, result, count, raised, evicted) ==
    [op |-> op, req |-> req, translated |-> translated, pattern |-> pattern,
     path |-> path, result |-> result, count |-> count, raised |-> raised,
     evicted |-> evicted, at |-> IF op = "set" THEN now ELSE 0]

RetGet(req, path, result) == Ret("get", req, <<>>, None, path, result, 0, FALSE, {})
RetSet(req, translated, path, evicted) ==
    Ret("set", req, translated, None, path, None, 0, FALSE, evicted)
RetClear(pattern, count) == Ret("clear", NoReq, <<>>, pattern, "ok", None, count, FALSE, {})
RetConstruct(path) == Ret("construct", NoReq, <<>>, None, path, None, 0, FALSE, {})
\* a construction whose _cleanup_expired deleted the entries of the keys swept
RetSwept(path, swept) ==
    Ret("construct", NoReq, <<>>, None, path, None, 0, FALSE, swept)
\* the call raised the exception named by path
RetRaise(op, req, translated, pattern, path) ==
    Ret(op, req, translated, pattern, path, None, 0, TRUE, {})

NoStats == [total_entries |-> 0, hits |-> 0, misses |-> 0]

\* positions of key in a sequence of records with a key field
PosOf(seq, key) ==
    IF \E i \in 1..Len(seq) : seq[i].key = key
    THEN CHOOSE i \in 1..Len(seq) : seq[i].key = key
    ELSE 0

\* mutant of RemoveAt: the deletion is forgotten
RemoveAt_forgotten(seq, i) == seq

RemoveAt(seq, i) == SubSeq(seq, 1, i - 1) \o SubSeq(seq, i + 1, Len(seq))

RemoveKey(seq, key) ==
    IF PosOf(seq, key) = 0 THEN seq ELSE RemoveAt(seq, PosOf(seq, key))

KeysOf(seq) == { seq[i].key : i \in 1..Len(seq) }

\* mutant of RemoveKeys: nothing is removed
RemoveKeys_forgotten(seq, keys) == seq

\* seq without the elements whose key is in keys, in order
RECURSIVE RemoveKeys(_, _)
RemoveKeys(seq, keys) ==
    IF seq = <<>> THEN <<>>
    ELSE IF Head(seq).key \in keys THEN RemoveKeys(Tail(seq), keys)
    ELSE <<Head(seq)>> \o RemoveKeys(Tail(seq), keys)

\* mutant of _is_expired: the boundary age ttl counts as expired
_is_expired_inclusive(timestamp) == now - timestamp >= ttl

\* TranslationCache._is_expired
_is_expired(timestamp) == now - timestamp > ttl

\* self.stats.hits += 1
Hit(st) == [st EXCEPT !.hits = @ + 1]

\* mutant of Miss: the miss is not counted
Miss_forgotten(st) == st

\* self.stats.misses += 1
Miss(st) == [st EXCEPT !.misses = @ + 1]

\* history: key becomes the most recently used one
Touch(rec, key) == Append(SelectSeq(rec, LAMBDA k : k # key), key)

\* history: the keys no longer stored are forgotten
Prune(rec, keys) == SelectSeq(rec, LAMBDA k : k \in keys)

\* what a call other than a set of a new key does to the fill history
FillBroken == /\ fill' = <<>>
              /\ fillOK' = FALSE

\* what a set of key that wrote its entry does to the fill history
FillSet(key) ==
    /\ fillOK' = (fillOK /\ \A i \in 1..Len(fill) : fill[i] # key)
    /\ fill' = IF fillOK' THEN Append(fill, key) ELSE <<>>

(***************************************************************************)
(* MemoryCache                                                             *)
(***************************************************************************)
\* mutant of move_to_end: the hit also renews the timestamp of the entry
move_to_end_renewed(c, key) ==
    Append(RemoveKey(c, key), [c[PosOf(c, key)] EXCEPT !.timestamp = now])

\* mutant of move_to_end: a hit leaves the order alone
move_to_end_forgotten(c, key) == c

\* OrderedDict.move_to_end(key)
move_to_end(c, key) == Append(RemoveKey(c, key), c[PosOf(c, key)])

\* mutant of PopWhileFull: evicts only above max_size
RECURSIVE PopWhileFull_late(_)
PopWhileFull_late(c) == IF Len(c) > max_size THEN PopWhileFull_late(Tail(c)) ELSE c

\* while len(self._cache) >= self.max_size: self._cache.popitem(last=False)
RECURSIVE PopWhileFull(_)
PopWhileFull(c) == IF Len(c) >= max_size THEN PopWhileFull(Tail(c)) ELSE c

MemoryGet(req) ==
    LET key == Key(req)
        i == PosOf(cache, key)
    IN  /\ kind = "memory" /\ alive /\ gets < MaxGets
        /\ IF i = 0
           THEN /\ cache' = cache
                /\ stats' = Miss(stats)
                /\ ret' = RetGet(req, "absent", None)
                /\ recency' = recency
           ELSE IF _is_expired(cache[i].timestamp)
           THEN /\ cache' = RemoveAt(cache, i)
                /\ stats' = Miss(stats)
                /\ ret' = RetGet(req, "expired", None)
                /\ recency' = Prune(recency, KeysOf(cache'))
           ELSE /\ cache' = move_to_end(cache, key)
                /\ stats' = Hit(stats)
                /\ ret' = RetGet(req, "hit", Some(cache[i].translated))
                /\ recency' = Touch(recency, key)
        /\ gets' = gets + 1
        /\ FillBroken
        /\ UNCHANGED << config, alive, now, file_state, sqlite_state, medium >>

MemorySet(req, translated) ==
    LET key == Key(req)
        timestamp == now
        deleted == RemoveKey(cache, key)
        kept == PopWhileFull(deleted)
    IN  /\ kind = "memory" /\ alive
        /\ cache' = Append(kept, [key |-> key, translated |-> translated,
                                  timestamp |-> timestamp])
        /\ stats' = [stats EXCEPT !.total_entries = Len(cache')]
        /\ ret' = RetSet(req, translated, "ok", KeysOf(deleted) \ KeysOf(kept))
        /\ recency' = Prune(Touch(recency, key), KeysOf(cache'))
        /\ FillSet(key)
        /\ UNCHANGED << config, alive, now, file_state, sqlite_state, medium, gets >>

\* the keys MemoryCache.clear(pattern) deletes: `pattern in key`, key the digest
MemoryKeysToDelete(c, pattern) ==
    { k \in KeysOf(c) : Contains(pattern, DigestChars(k)) }

\* pattern is None or Some(p)
MemoryClear(pattern) ==
    /\ kind = "memory" /\ alive
    /\ IF pattern = None
       THEN /\ cache' = <<>>
            /\ stats' = [stats EXCEPT !.total_entries = 0]
            /\ ret' = RetClear(pattern, Len(cache))
       ELSE LET keys_to_delete == MemoryKeysToDelete(cache, pattern[1])
            IN  /\ cache' = RemoveKeys(cache, keys_to_delete)
                /\ stats' = [stats EXCEPT !.total_entries = Len(cache')]
                /\ ret' = RetClear(pattern, Cardinality(keys_to_delete))
    /\ recency' = Prune(recency, KeysOf(cache'))
    /\ FillBroken
    /\ UNCHANGED << config, alive, now, file_state, sqlite_state, medium, gets >>

\* a new process constructs MemoryCache(max_size, ttl)
MemoryConstruct ==
    /\ kind = "memory"
    /\ alive' = TRUE
    /\ cache' = <<>>
    /\ stats' = NoStats
    /\ ret' = RetConstruct("ok")
    /\ recency' = <<>>
    /\ gets' = 0
    /\ fill' = <<>>
    /\ fillOK' = TRUE
    /\ UNCHANGED << config, now, file_state, sqlite_state, medium >>

(***************************************************************************)
(* FileCache                                                               *)
(*                                                                         *)
(* files is the set of entry files, [key, content]; at most one per key.   *)
(* index_file.state is "missing", "mapping" (content is the mapping that   *)
(* was dumped), "garbage" (not valid JSON), "unreadable", "not_mapping"    *)
(* (valid JSON that is no object), "bad_record" (an object whose values    *)
(* are no metadata records) or "not_utf8".                                 *)
(* medium "readonly" fails every open for writing and every unlink;        *)
(* medium "full" lets unlink and truncation pass and fails the write.      *)
(***************************************************************************)
os_linesep == <<"LF">>

\* open(path, "w") in text mode: write translates "\n" to os.linesep
RECURSIVE TextWrite(_)
TextWrite(s) ==
    IF s = <<>> THEN <<>>
    ELSE (IF Head(s) = "LF" THEN os_linesep ELSE <<Head(s)>>) \o TextWrite(Tail(s))

\* open(path, "r") in text mode: read translates "\r\n" and "\r" to "\n"
RECURSIVE TextRead(_)
TextRead(s) ==
    IF s = <<>> THEN <<>>
    ELSE IF Head(s) = "CR"
         THEN IF Len(s) >= 2 /\ s[2] = "LF"
              THEN <<"LF">> \o TextRead(Tail(Tail(s)))
              ELSE <<"LF">> \o TextRead(Tail(s))
         ELSE <<Head(s)>> \o TextRead(Tail(s))

\* cache_file.exists()
FileExists(fs, key) == \E f \in fs : f.key = key

FileContent(fs, key) == (CHOOSE f \in fs : f.key = key).content

\* cache_file.unlink()
Unlink(fs, key) == { f \in fs : f.key # key }

UnlinkAll(fs, keys) == { f \in fs : f.key \notin keys }

\* the file after open(cache_file, "w") ... f.write(content) succeeded
WriteFile(fs, key, content) == Unlink(fs, key) \cup {[key |-> key, content |-> content]}

\* mutant of DictSet: the record is added beside the one of the same key
DictSet_added(idx, entry) == Append(idx, entry)

\* self._index[key] = metadata: in place when the key is there, else at the end
DictSet(idx, entry) ==
    IF PosOf(idx, entry.key) = 0 THEN Append(idx, entry)
    ELSE [idx EXCEPT ![PosOf(idx, entry.key)] = entry]

\* mutant of OldestKey: the entry with the largest timestamp
OldestKey_newest(idx) ==
    idx[CHOOSE i \in 1..Len(idx) :
            \A j \in 1..Len(idx) : idx[i].timestamp >= idx[j].timestamp].key

\* sorted(self._index.items(), key=timestamp)[0][0]: the first entry, in dict
\* order, among those with the smallest timestamp (sorted is stable)
OldestKey(idx) ==
    idx[CHOOSE i \in 1..Len(idx) :
            /\ \A j \in 1..Len(idx) : idx[i].timestamp <= idx[j].timestamp
            /\ \A j \in 1..(i - 1) : idx[j].timestamp > idx[i].timestamp].key

\* mutant of _save_index: the index is not written
_save_index_skipped(idx) == index_file

\* FileCache._save_index: what index.json holds afterwards
_save_index(idx) ==
    CASE medium = "ok" -> [state |-> "mapping", content |-> idx]
      [] medium = "readonly" -> index_file
      [] medium = "full" -> [state |-> "garbage", content |-> <<>>]

\* mutant of _load_index: the persisted index is ignored
_load_index_empty == <<>>

\* FileCache._load_index, for the index files it returns a mapping for
_load_index ==
    IF index_file.state = "mapping" THEN index_file.content ELSE <<>>

\* the entries of idx that are expired, in order
ExpiredEntries(idx) == SelectSeq(idx, LAMBDA e : _is_expired(e.timestamp))

FileGet(req) ==
    LET key == Key(req)
        i == PosOf(index, key)
        deleted == RemoveKey(index, key)
    IN  /\ kind = "file" /\ alive /\ gets < MaxGets
        /\ IF i = 0
           THEN /\ stats' = Miss(stats)
                /\ ret' = RetGet(req, "absent", None)
                /\ gets' = gets + 1
                /\ UNCHANGED file_state
           ELSE IF _is_expired(index[i].timestamp)
           THEN IF FileExists(files, key) /\ medium = "readonly"
                THEN /\ ret' = RetRaise("get", req, <<>>, None, "PermissionError")
                     /\ UNCHANGED << stats, gets, file_state >>
                ELSE /\ files' = Unlink(files, key)
                     /\ index' = deleted
                     /\ index_file' = _save_index(deleted)
                     /\ stats' = Miss(stats)
                     /\ ret' = RetGet(req, "expired", None)
                     /\ gets' = gets + 1
           ELSE IF ~FileExists(files, key)
           THEN /\ index' = deleted
                /\ index_file' = _save_index(deleted)
                /\ stats' = Miss(stats)
                /\ ret' = RetGet(req, "missing_file", None)
                /\ gets' = gets + 1
                /\ UNCHANGED files
           ELSE /\ stats' = Hit(stats)
                /\ ret' = RetGet(req, "hit", Some(TextRead(FileContent(files, key))))
                /\ gets' = gets + 1
                /\ UNCHANGED file_state
        /\ FillBroken
        /\ UNCHANGED << config, alive, now, memory_state, sqlite_state, medium, recency >>

FileSet(req, translated) ==
    LET key == Key(req)
        timestamp == now
        at_capacity == Len(index) >= max_size
        oldest_key == OldestKey(index)
        evicted == IF at_capacity THEN {oldest_key} ELSE {}
        index1 == IF at_capacity THEN RemoveKey(index, oldest_key) ELSE index
        files1 == UnlinkAll(files, evicted)
        entry == [key |-> key, timestamp |-> timestamp,
                  source_lang |-> req.source_lang, target_lang |-> req.target_lang]
    IN  /\ kind = "file" /\ alive
        /\ IF at_capacity /\ FileExists(files, oldest_key) /\ medium = "readonly"
           THEN \* the unlink of the evicted entry's file is outside the try
                /\ ret' = RetRaise("set", req, translated, None, "PermissionError")
                /\ UNCHANGED << stats, file_state, fill, fillOK >>
           ELSE IF medium = "ok"
           THEN /\ files' = WriteFile(files1, key, TextWrite(translated))
                /\ index' = DictSet(index1, entry)
                /\ index_file' = _save_index(index')
                /\ stats' = [stats EXCEPT !.total_entries = Len(index')]
                /\ ret' = RetSet(req, translated, "ok", evicted)
                /\ FillSet(key)
           ELSE \* IOError from open or write: swallowed by the except clause
                /\ index' = index1
                /\ \/ /\ medium = "readonly"
                      /\ files' = files1
                   \/ /\ medium = "full"
                      /\ \E created \in BOOLEAN :
                           files' = IF created \/ FileExists(files1, key)
                                    THEN WriteFile(files1, key, <<>>)
                                    ELSE files1
                /\ ret' = RetSet(req, translated, "IOError", evicted)
                /\ FillBroken
                /\ UNCHANGED << stats, index_file >>
        /\ UNCHANGED << config, alive, now, memory_state, sqlite_state, medium,
                        recency, gets >>

\* the keys FileCache.clear(pattern) deletes, in index order
FileKeysToDelete(idx, pattern) ==
    SelectSeq(idx, LAMBDA e : \/ Contains(pattern, e.source_lang)
                              \/ Contains(pattern, e.target_lang))

\* the entries of a loop `for key in keys: unlink its file if it exists; ...`
\* reached before the first unlink, which raises on a read-only medium
RECURSIVE BeforeFirstFile(_)
BeforeFirstFile(entries) ==
    IF entries = <<>> \/ FileExists(files, Head(entries).key) THEN <<>>
    ELSE <<Head(entries)>> \o BeforeFirstFile(Tail(entries))

\* pattern is None or Some(p)
FileClear(pattern) ==
    LET to_delete == IF pattern = None THEN index
                     ELSE FileKeysToDelete(index, pattern[1])
        unlink_raises == /\ medium = "readonly"
                         /\ \E i \in 1..Len(to_delete) : FileExists(files, to_delete[i].key)
    IN  /\ kind = "file" /\ alive
        /\ IF unlink_raises
           THEN /\ index' = IF pattern = None THEN index
                            ELSE RemoveKeys(index, KeysOf(BeforeFirstFile(to_delete)))
                /\ ret' = RetRaise("clear", NoReq, <<>>, pattern, "PermissionError")
                /\ UNCHANGED << stats, files, index_file >>
           ELSE /\ files' = UnlinkAll(files, KeysOf(to_delete))
                /\ index' = RemoveKeys(index, KeysOf(to_delete))
                /\ index_file' = IF pattern = None \/ Len(to_delete) > 0
                                 THEN _save_index(index')
                                 ELSE index_file
                /\ stats' = [stats EXCEPT !.total_entries = Len(index')]
                /\ ret' = RetClear(pattern, Len(to_delete))
        /\ FillBroken
        /\ UNCHANGED << config, alive, now, memory_state, sqlite_state, medium,
                        recency, gets >>

\* a new process constructs FileCache(cache_dir, max_size, ttl) over the directory
FileConstruct ==
    LET loaded == _load_index
        expired == ExpiredEntries(loaded)
        kept == RemoveKeys(loaded, KeysOf(expired))
    IN  /\ kind = "file"
        /\ IF index_file.state = "not_utf8"
           THEN \* open(..., encoding="utf-8") then json.load: not an IOError
                /\ ret' = RetRaise("construct", NoReq, <<>>, None, "UnicodeDecodeError")
                /\ alive' = FALSE
                /\ index' = <<>>
                /\ UNCHANGED << files, index_file >>
           ELSE IF index_file.state \in {"not_mapping", "bad_record"}
           THEN \* _cleanup_expired calls .items() and metadata.get on what was loaded
                /\ ret' = RetRaise("construct", NoReq, <<>>, None, "AttributeError")
                /\ alive' = FALSE
                /\ index' = <<>>
                /\ UNCHANGED << files, index_file >>
           ELSE IF /\ medium = "readonly"
                   /\ \E i \in 1..Len(expired) : FileExists(files, expired[i].key)
           THEN /\ ret' = RetRaise("construct", NoReq, <<>>, None, "PermissionError")
                /\ alive' = FALSE
                /\ index' = <<>>
                /\ UNCHANGED << files, index_file >>
           ELSE /\ ret' = RetSwept(index_file.state, KeysOf(expired))
                /\ alive' = TRUE
                /\ index' = kept
                /\ files' = UnlinkAll(files, KeysOf(expired))
                /\ index_file' = IF Len(expired) > 0 THEN _save_index(kept)
                                 ELSE index_file
        /\ stats' = NoStats
        /\ gets' = 0
        /\ fill' = <<>>
        /\ fillOK' = (alive' /\ index' = <<>>)
        /\ UNCHANGED << config, now, memory_state, sqlite_state, medium, recency >>

(***************************************************************************)
(* SQLiteCache                                                             *)
(*                                                                         *)
(* db holds the rows of translations in rowid order: a new row, and a row  *)
(* written by INSERT OR REPLACE, gets a rowid above every other one.  The  *)
(* columns original_text and options are written and never read; they are  *)
(* left out.  On a medium that is not "ok" every statement that writes     *)
(* raises sqlite3.OperationalError; on a corrupt database file every       *)
(* statement raises sqlite3.DatabaseError; when the database file has      *)
(* been removed, connect creates an empty one and every statement of       *)
(* get, set and clear raises sqlite3.OperationalError (no such table).     *)
(***************************************************************************)
\* SQL: s LIKE pat, with the wildcards % and _ and ASCII case folding
RECURSIVE Like(_, _)
Like(pat, s) ==
    IF pat = <<>> THEN s = <<>>
    ELSE IF Head(pat) = "%"
         THEN \E k \in 0..Len(s) : Like(Tail(pat), SubSeq(s, k + 1, Len(s)))
    ELSE IF s = <<>> THEN FALSE
    ELSE IF Head(pat) = "_" THEN Like(Tail(pat), Tail(s))
    ELSE LowerChar(Head(pat)) = LowerChar(Head(s)) /\ Like(Tail(pat), Tail(s))

\* WHERE source_lang LIKE '%p%' OR target_lang LIKE '%p%'
SQLiteRowsToDelete(rows, pattern) ==
    LET pat == <<"%">> \o pattern \o <<"%">>
    IN SelectSeq(rows, LAMBDA r : Like(pat, r.source_lang) \/ Like(pat, r.target_lang))

\* SELECT cache_key FROM translations ORDER BY timestamp ASC LIMIT 1: the scan of
\* idx_timestamp yields the lowest rowid among the smallest timestamps
OldestRowKey(rows) ==
    rows[CHOOSE i \in 1..Len(rows) :
            /\ \A j \in 1..Len(rows) : rows[i].timestamp <= rows[j].timestamp
            /\ \A j \in 1..(i - 1) : rows[j].timestamp > rows[i].timestamp].key

\* mutant of SweepRows: nothing is deleted
SweepRows_skipped(rows) == rows

\* DELETE FROM translations WHERE timestamp < ?  with  ? = time.time() - self.ttl
SweepRows(rows) == SelectSeq(rows, LAMBDA r : ~(r.timestamp < now - ttl))

SQLiteGet(req) ==
    LET key == Key(req)
        i == PosOf(db, key)
    IN  /\ kind = "sqlite" /\ alive /\ gets < MaxGets
        /\ IF db_file = "corrupt"
           THEN /\ ret' = RetRaise("get", req, <<>>, None, "DatabaseError")
                /\ UNCHANGED << stats, gets, db >>
           ELSE IF db_file = "missing"
           THEN /\ ret' = RetRaise("get", req, <<>>, None, "OperationalError")
                /\ UNCHANGED << stats, gets, db >>
           ELSE IF i = 0
           THEN /\ stats' = Miss(stats)
                /\ ret' = RetGet(req, "absent", None)
                /\ gets' = gets + 1
                /\ UNCHANGED db
           ELSE IF _is_expired(db[i].timestamp)
           THEN IF medium # "ok"
                THEN /\ ret' = RetRaise("get", req, <<>>, None, "OperationalError")
                     /\ UNCHANGED << stats, gets, db >>
                ELSE /\ db' = RemoveAt(db, i)
                     /\ stats' = Miss(stats)
                     /\ ret' = RetGet(req, "expired", None)
                     /\ gets' = gets + 1
           ELSE /\ stats' = Hit(stats)
                /\ ret' = RetGet(req, "hit", Some(db[i].translated))
                /\ gets' = gets + 1
                /\ UNCHANGED db
        /\ FillBroken
        /\ UNCHANGED << config, alive, now, memory_state, file_state, db_file,
                        medium, recency >>

SQLiteSet(req, translated) ==
    LET key == Key(req)
        timestamp == now
        count == Len(db)
        at_capacity == count >= max_size
        evicted == IF at_capacity THEN {OldestRowKey(db)} ELSE {}
        kept == RemoveKeys(db, evicted)
        row == [key |-> key, translated |-> translated, timestamp |-> timestamp,
                source_lang |-> req.source_lang, target_lang |-> req.target_lang]
    IN  /\ kind = "sqlite" /\ alive
        /\ IF db_file = "corrupt"
           THEN /\ ret' = RetRaise("set", req, translated, None, "DatabaseError")
                /\ UNCHANGED << stats, db, fill, fillOK >>
           ELSE IF db_file = "missing"
           THEN /\ ret' = RetRaise("set", req, translated, None, "OperationalError")
                /\ UNCHANGED << stats, db, fill, fillOK >>
           ELSE IF medium # "ok"
           THEN /\ ret' = RetRaise("set", req, translated, None, "OperationalError")
                /\ UNCHANGED << stats, db, fill, fillOK >>
           ELSE /\ db' = Append(RemoveKey(kept, key), row)
                /\ stats' = [stats EXCEPT !.total_entries = count + 1]
                /\ ret' = RetSet(req, translated, "ok", evicted)
                /\ FillSet(key)
        /\ UNCHANGED << config, alive, now, memory_state, file_state, db_file,
                        medium, recency, gets >>

\* pattern is None or Some(p)
SQLiteClear(pattern) ==
    LET to_delete == IF pattern = None THEN db ELSE SQLiteRowsToDelete(db, pattern[1])
    IN  /\ kind = "sqlite" /\ alive
        /\ IF db_file = "corrupt"
           THEN /\ ret' = RetRaise("clear", NoReq, <<>>, pattern, "DatabaseError")
                /\ UNCHANGED << stats, db >>
           ELSE IF db_file = "missing"
           THEN /\ ret' = RetRaise("clear", NoReq, <<>>, pattern, "OperationalError")
                /\ UNCHANGED << stats, db >>
           ELSE IF medium # "ok"
           THEN /\ ret' = RetRaise("clear", NoReq, <<>>, pattern, "OperationalError")
                /\ UNCHANGED << stats, db >>
           ELSE /\ db' = RemoveKeys(db, KeysOf(to_delete))
                /\ stats' = [stats EXCEPT !.total_entries = 0]
                /\ ret' = RetClear(pattern, Len(to_delete))
        /\ FillBroken
        /\ UNCHANGED << config, alive, now, memory_state, file_state, db_file,
                        medium, recency, gets >>

\* a new process constructs SQLiteCache(db_path, max_size, ttl) over the database
SQLiteConstruct ==
    /\ kind = "sqlite"
    /\ IF db_file = "corrupt"
       THEN \* _init_db: CREATE TABLE IF NOT EXISTS on a file that is no database
            /\ ret' = RetRaise("construct", NoReq, <<>>, None, "DatabaseError")
            /\ alive' = FALSE
            /\ UNCHANGED db
       ELSE IF medium # "ok"
       THEN \* _cleanup_expired: the DELETE cannot start a write transaction
            /\ ret' = RetRaise("construct", NoReq, <<>>, None, "OperationalError")
            /\ alive' = FALSE
            /\ UNCHANGED db
       ELSE /\ ret' = RetSwept(db_file, KeysOf(db) \ KeysOf(SweepRows(db)))
            /\ alive' = TRUE
            /\ db' = SweepRows(db)
    /\ db_file' = IF alive' THEN "ok" ELSE db_file
    /\ stats' = NoStats
    /\ gets' = 0
    /\ fill' = <<>>
    /\ fillOK' = (alive' /\ db' = <<>>)
    /\ UNCHANGED << config, now, memory_state, file_state, medium, recency >>

\* the clock advances
Tick ==
    /\ now < MaxTime
    /\ now' = now + 1
    /\ UNCHANGED << config, translator, pair, alive, stats, memory_state, file_state,
                    sqlite_state, medium, ret, recency, fill, fillOK, gets >>

Init ==
    /\ kind \in Kinds
    /\ alive = TRUE
    /\ max_size \in 1..MaxSize
    /\ ttl = Ttl
    /\ now = 0
    /\ stats = NoStats
    /\ cache = <<>>
    /\ index = <<>>
    /\ index_file = [state |-> "missing", content |-> <<>>]
    /\ files = {}
    /\ db = <<>>
    /\ db_file = "ok"
    /\ medium = "ok"
    /\ ret = RetConstruct("ok")
    /\ recency = <<>>
    /\ fill = <<>>
    /\ fillOK = TRUE
    /\ gets = 0
    /\ faults = 0
    /\ calls = <<>>
    /\ derived = <<>>
    /\ threads = [t \in Threads |-> IdleThread]
    /\ translator = IdleTranslator
    /\ pair = NoPair

MemoryNext ==
    \/ \E req \in Requests : MemoryGet(req) /\ UNCHANGED << translator, pair >>
    \/ \E input \in SetInputs : MemorySet(input[1], input[2]) /\ UNCHANGED << translator, pair >>
    \/ \E pattern \in {None} \cup { Some(p) : p \in Patterns } :
           MemoryClear(pattern) /\ UNCHANGED << translator, pair >>
    \/ MemoryConstruct /\ UNCHANGED << translator, pair >>

FileNext ==
    \/ \E req \in Requests : FileGet(req) /\ UNCHANGED << translator, pair >>
    \/ \E input \in SetInputs : FileSet(input[1], input[2]) /\ UNCHANGED << translator, pair >>
    \/ \E pattern \in {None} \cup { Some(p) : p \in Patterns } :
           FileClear(pattern) /\ UNCHANGED << translator, pair >>
    \/ FileConstruct /\ UNCHANGED << translator, pair >>

SQLiteNext ==
    \/ \E req \in Requests : SQLiteGet(req) /\ UNCHANGED << translator, pair >>
    \/ \E input \in SetInputs : SQLiteSet(input[1], input[2]) /\ UNCHANGED << translator, pair >>
    \/ \E pattern \in {None} \cup { Some(p) : p \in Patterns } :
           SQLiteClear(pattern) /\ UNCHANGED << translator, pair >>
    \/ SQLiteConstruct /\ UNCHANGED << translator, pair >>

Next ==
    \/ MemoryNext
    \/ FileNext
    \/ SQLiteNext
    \/ Tick

Spec == Init /\ [][Next]_vars

(***************************************************************************)
(* The environment of the file and SQLite backends: the medium becomes     *)
(* unwritable or writable again, and the persisted files are damaged or    *)
(* removed from outside.                                                   *)
(***************************************************************************)
MediumChanges(m) ==
    /\ faults < MaxFaults
    /\ faults' = faults + 1
    /\ kind # "memory"
    /\ m # medium
    /\ medium' = m
    /\ UNCHANGED << kind, max_size, ttl, calls, derived, threads, translator, pair, alive, now, stats, memory_state, file_state,
                    sqlite_state, ret, recency, fill, fillOK, gets >>

IndexFileStates ==
    {"missing", "garbage", "unreadable", "not_mapping", "bad_record", "not_utf8"}

IndexFileDamaged(state) ==
    /\ faults < MaxFaults
    /\ faults' = faults + 1
    /\ kind = "file"
    /\ index_file.state # state
    /\ index_file' = [state |-> state, content |-> <<>>]
    /\ UNCHANGED << kind, max_size, ttl, calls, derived, threads, translator, pair, alive, now, stats, memory_state, index, files,
                    sqlite_state, medium, ret, recency, fill, fillOK, gets >>

DbFileDamaged(state) ==
    /\ faults < MaxFaults
    /\ faults' = faults + 1
    /\ kind = "sqlite"
    /\ db_file # state
    /\ db_file' = state
    /\ db' = IF state = "missing" THEN <<>> ELSE db
    /\ UNCHANGED << kind, max_size, ttl, calls, derived, threads, translator, pair, alive, now, stats, memory_state, file_state,
                    medium, ret, recency, fill, fillOK, gets >>

\* the entry file of key is removed from the cache directory from outside
EntryFileRemoved(key) ==
    /\ faults < MaxFaults
    /\ faults' = faults + 1
    /\ kind = "file"
    /\ FileExists(files, key)
    /\ files' = Unlink(files, key)
    /\ UNCHANGED << kind, max_size, ttl, calls, derived, threads, translator, pair, alive, now, stats, memory_state, index,
                    index_file, sqlite_state, medium, ret, recency, fill, fillOK, gets >>

Environment ==
    \/ \E m \in {"ok", "readonly", "full"} : MediumChanges(m)
    \/ \E state \in IndexFileStates : IndexFileDamaged(state)
    \/ \E state \in {"corrupt", "missing"} : DbFileDamaged(state)
    \/ \E req \in Requests : EntryFileRemoved(Key(req))

NextFault ==
    \/ Next
    \/ Environment

SpecFault == Init /\ [][NextFault]_vars

(***************************************************************************)
(* Direct calls of generate_cache_key: two calls, each on arguments drawn  *)
(* from KeyInputs.  derived holds the string each call hashed; the key is  *)
(* the md5 digest of that string, so equal strings are equal keys and,     *)
(* for an injective digest, different strings are different keys.          *)
(***************************************************************************)
KeyTexts ==
    { <<"a">>, <<" ","a","LF">>, <<"a"," ","b">>, <<"a","TAB"," ","b">>,
      <<"a","|","e","n">> }

KeySourceLangs ==
    { <<"e","n">>, <<" ","E","N","-","u","s">>, <<"z","h">>,
      <<"e","n","|","z","h">>, <<>>, <<" ">> }

KeyTargetLangs == { <<"z","h">>, <<"Z","H","-","C","N"," ">>, <<"f","r">> }

KeyOptions ==
    { <<>>,
      << <<"formality", <<"x">> >> >>,
      << <<"formality", <<"y">> >> >>,
      << <<"glossary", <<"g">> >> >>,
      << <<"glossary", <<"g">> >>, <<"formality", <<"x">> >> >> }

KeyInputs ==
    [text : KeyTexts, source_lang : KeySourceLangs, target_lang : KeyTargetLangs,
     options : KeyOptions]

\* key_string on the arguments of the model, evaluated once
KeyStringOf ==
    [c \in KeyInputs |-> key_string(c.text, c.source_lang, c.target_lang, c.options)]

\* generate_cache_key(**c) is called
Derive(c) ==
    /\ Len(calls) < 2
    /\ calls' = Append(calls, c)
    /\ derived' = Append(derived, KeyStringOf[c])
    /\ UNCHANGED << kind, max_size, ttl, faults, threads, translator, pair, alive, now, stats,
                    memory_state, file_state, sqlite_state, medium, ret, recency,
                    fill, fillOK, gets >>

\* no cache instance is involved
InitKey ==
    /\ kind = "memory"
    /\ alive = FALSE
    /\ max_size = 1
    /\ ttl = Ttl
    /\ now = 0
    /\ stats = NoStats
    /\ cache = <<>>
    /\ index = <<>>
    /\ index_file = [state |-> "missing", content |-> <<>>]
    /\ files = {}
    /\ db = <<>>
    /\ db_file = "ok"
    /\ medium = "ok"
    /\ ret = RetConstruct("ok")
    /\ recency = <<>>
    /\ fill = <<>>
    /\ fillOK = TRUE
    /\ gets = 0
    /\ faults = 0
    /\ calls = <<>>
    /\ derived = <<>>
    /\ threads = [t \in Threads |-> IdleThread]
    /\ translator = IdleTranslator
    /\ pair = NoPair

NextKey == \E c \in KeyInputs : Derive(c)

SpecKey == InitKey /\ [][NextKey]_vars

(***************************************************************************)
(* Several threads call one instance.  No method of cache.py takes a lock, *)
(* so a thread may be suspended between any two statements of a call, and  *)
(* inside an augmented assignment between its read and its write.  A step  *)
(* of thread t runs the statement at threads[t].pc.                        *)
(***************************************************************************)
ThreadRequests == {ReqBye, ReqYes}

\* thread t goes on at pc with its locals changed as in the record changes
Goto(t, pc) == [threads EXCEPT ![t].pc = pc]

\* the call of thread t returns
Return(t) == [threads EXCEPT ![t].pc = "idle"]

\* the call of thread t raises exc to its caller
Raise(t, exc) == [threads EXCEPT ![t].pc = "idle", ![t].error = exc]

\* thread t calls get(req) or set(req, translated); set reads the clock first
ThreadCall(t, op, req) ==
    /\ alive
    /\ threads[t].pc = "idle" /\ threads[t].n < ThreadCalls
    /\ threads' = [threads EXCEPT ![t] =
           [pc |-> CASE kind = "memory" -> IF op = "get" THEN "memory:102" ELSE "memory:132"
                     [] kind = "file" -> IF op = "get" THEN "file:245" ELSE "file:291"
                     [] kind = "sqlite" -> IF op = "get" THEN "sqlite:430" ELSE "sqlite:473",
            n |-> threads[t].n + 1, op |-> op, req |-> req, timestamp |-> now,
            translated |-> IF op = "set" THEN Oui ELSE <<>>, count |-> 0, loaded |-> 0,
            oldest_key |-> "", error |-> "", torn |-> FALSE]]
    /\ UNCHANGED << kind, max_size, ttl, faults, calls, derived, translator, pair, alive, now, stats,
                    memory_state, file_state, sqlite_state, medium, ret, recency,
                    fill, fillOK, gets >>

\* self.stats.misses += 1, the read: pc is "miss"
MissLoad(t) ==
    /\ threads[t].pc = "miss"
    /\ threads' = [threads EXCEPT ![t].pc = "miss:store", ![t].loaded = stats.misses]
    /\ UNCHANGED << kind, max_size, ttl, faults, calls, derived, translator, pair, alive, now, stats,
                    memory_state, file_state, sqlite_state, medium, ret, recency,
                    fill, fillOK, gets >>

\* self.stats.misses += 1, the write, and `return None`
MissStore(t) ==
    /\ threads[t].pc = "miss:store"
    /\ stats' = [stats EXCEPT !.misses = threads[t].loaded + 1]
    /\ threads' = [Return(t) EXCEPT ![t].translated = <<>>]
    /\ gets' = gets + 1
    /\ UNCHANGED << kind, max_size, ttl, faults, calls, derived, translator, pair, alive, now,
                    memory_state, file_state, sqlite_state, medium, ret, recency,
                    fill, fillOK >>

\* self.stats.hits += 1, the read: pc is "hit"
HitLoad(t) ==
    /\ threads[t].pc = "hit"
    /\ threads' = [threads EXCEPT ![t].pc = "hit:store", ![t].loaded = stats.hits]
    /\ UNCHANGED << kind, max_size, ttl, faults, calls, derived, translator, pair, alive, now, stats,
                    memory_state, file_state, sqlite_state, medium, ret, recency,
                    fill, fillOK, gets >>

\* self.stats.hits += 1, the write, and `return translated`
HitStore(t) ==
    /\ threads[t].pc = "hit:store"
    /\ stats' = [stats EXCEPT !.hits = threads[t].loaded + 1]
    /\ threads' = Return(t)
    /\ gets' = gets + 1
    /\ UNCHANGED << kind, max_size, ttl, faults, calls, derived, translator, pair, alive, now,
                    memory_state, file_state, sqlite_state, medium, ret, recency,
                    fill, fillOK >>

\* one statement of MemoryCache.get or MemoryCache.set run by thread t
MemoryStep(t) ==
    LET th == threads[t]
        key == Key(th.req)
        i == PosOf(cache, key)
    IN  /\ kind = "memory"
        /\ CASE th.pc = "memory:102" ->   \* if key not in self._cache:
                  /\ threads' = Goto(t, IF i = 0 THEN "miss" ELSE "memory:106")
                  /\ UNCHANGED << cache, stats >>
             [] th.pc = "memory:106" ->   \* translated, timestamp = self._cache[key]
                  /\ threads' = IF i = 0 THEN Raise(t, "KeyError")
                                ELSE [threads EXCEPT ![t].pc = "memory:109",
                                                     ![t].translated = cache[i].translated,
                                                     ![t].timestamp = cache[i].timestamp]
                  /\ UNCHANGED << cache, stats >>
             [] th.pc = "memory:109" ->   \* if self._is_expired(timestamp):
                  /\ threads' = Goto(t, IF _is_expired(th.timestamp) THEN "memory:110"
                                        ELSE "memory:115")
                  /\ UNCHANGED << cache, stats >>
             [] th.pc = "memory:110" ->   \* del self._cache[key]
                  /\ threads' = IF i = 0 THEN Raise(t, "KeyError") ELSE Goto(t, "miss")
                  /\ cache' = RemoveKey(cache, key)
                  /\ UNCHANGED stats
             [] th.pc = "memory:115" ->   \* self._cache.move_to_end(key)
                  /\ threads' = IF i = 0 THEN Raise(t, "KeyError") ELSE Goto(t, "hit")
                  /\ cache' = IF i = 0 THEN cache ELSE move_to_end(cache, key)
                  /\ UNCHANGED stats
             [] th.pc = "memory:132" ->   \* if key in self._cache:
                  /\ threads' = Goto(t, IF i # 0 THEN "memory:133" ELSE "memory:136")
                  /\ UNCHANGED << cache, stats >>
             [] th.pc = "memory:133" ->   \* del self._cache[key]
                  /\ threads' = IF i = 0 THEN Raise(t, "KeyError") ELSE Goto(t, "memory:136")
                  /\ cache' = RemoveKey(cache, key)
                  /\ UNCHANGED stats
             [] th.pc = "memory:136" ->   \* while len(self._cache) >= self.max_size:
                  /\ threads' = Goto(t, IF Len(cache) >= max_size THEN "memory:137"
                                        ELSE "memory:140")
                  /\ UNCHANGED << cache, stats >>
             [] th.pc = "memory:137" ->   \* self._cache.popitem(last=False)
                  /\ threads' = IF cache = <<>> THEN Raise(t, "KeyError")
                                ELSE Goto(t, "memory:136")
                  /\ cache' = IF cache = <<>> THEN cache ELSE Tail(cache)
                  /\ UNCHANGED stats
             [] th.pc = "memory:140" ->   \* self._cache[key] = (translated, timestamp)
                  /\ threads' = Goto(t, "memory:141")
                  /\ cache' = DictSet(cache, [key |-> key, translated |-> th.translated,
                                              timestamp |-> th.timestamp])
                  /\ UNCHANGED stats
             [] th.pc = "memory:141" ->   \* self.stats.total_entries = len(self._cache)
                  /\ threads' = Return(t)
                  /\ stats' = [stats EXCEPT !.total_entries = Len(cache)]
                  /\ UNCHANGED cache
             [] OTHER -> FALSE
        /\ UNCHANGED << kind, max_size, ttl, faults, calls, derived, translator, pair, alive, now,
                        file_state, sqlite_state, medium, ret, recency, fill, fillOK,
                        gets >>

\* one statement of SQLiteCache.get or SQLiteCache.set run by thread t.  Every call
\* uses a connection of its own; a SELECT reads the committed rows, and the
\* statements from the first write to conn.commit() are one transaction.
SQLiteStep(t) ==
    LET th == threads[t]
        key == Key(th.req)
        i == PosOf(db, key)
        kept == IF th.count >= max_size /\ db # <<>>
                THEN RemoveKey(db, OldestRowKey(db)) ELSE db
        row == [key |-> key, translated |-> th.translated, timestamp |-> th.timestamp,
                source_lang |-> th.req.source_lang, target_lang |-> th.req.target_lang]
    IN  /\ kind = "sqlite"
        /\ CASE th.pc = "sqlite:430" ->   \* SELECT ... WHERE cache_key = ?; fetchone()
                  /\ threads' = IF i = 0 THEN Goto(t, "miss")
                                ELSE [threads EXCEPT ![t].pc = "sqlite:444",
                                                     ![t].translated = db[i].translated,
                                                     ![t].timestamp = db[i].timestamp]
                  /\ UNCHANGED << db, stats >>
             [] th.pc = "sqlite:444" ->   \* if self._is_expired(timestamp):
                  /\ threads' = Goto(t, IF _is_expired(th.timestamp) THEN "sqlite:447"
                                        ELSE "hit")
                  /\ UNCHANGED << db, stats >>
             [] th.pc = "sqlite:447" ->   \* DELETE ... WHERE cache_key = ?; commit
                  /\ threads' = Goto(t, "miss")
                  /\ db' = RemoveKey(db, key)
                  /\ UNCHANGED stats
             [] th.pc = "sqlite:473" ->   \* SELECT COUNT(*) FROM translations
                  /\ threads' = [threads EXCEPT ![t].pc = "sqlite:476",
                                                ![t].count = Len(db)]
                  /\ UNCHANGED << db, stats >>
             [] th.pc = "sqlite:476" ->   \* if count >= max_size: DELETE the oldest;
                                          \* INSERT OR REPLACE; commit
                  /\ threads' = Goto(t, "sqlite:496")
                  /\ db' = Append(RemoveKey(kept, key), row)
                  /\ UNCHANGED stats
             [] th.pc = "sqlite:496" ->   \* self.stats.total_entries = count + 1
                  /\ threads' = Return(t)
                  /\ stats' = [stats EXCEPT !.total_entries = th.count + 1]
                  /\ UNCHANGED db
             [] OTHER -> FALSE
        /\ UNCHANGED << kind, max_size, ttl, faults, calls, derived, translator, pair, alive, now,
                        memory_state, file_state, db_file, medium, ret, recency, fill,
                        fillOK, gets >>

\* one statement of FileCache.get or FileCache.set run by thread t.  open(.., "w")
\* leaves the file empty until the with block is left; _save_index is taken as
\* one step.
FileStep(t) ==
    LET th == threads[t]
        key == Key(th.req)
        i == PosOf(index, key)
        here == FileExists(files, key)
        entry == [key |-> key, timestamp |-> th.timestamp,
                  source_lang |-> th.req.source_lang,
                  target_lang |-> th.req.target_lang]
    IN  /\ kind = "file"
        /\ CASE th.pc = "file:245" ->   \* if key not in self._index:
                  /\ threads' = Goto(t, IF i = 0 THEN "miss" ELSE "file:249")
                  /\ UNCHANGED << file_state, stats >>
             [] th.pc = "file:249" ->   \* metadata = self._index[key]
                  /\ threads' = IF i = 0 THEN Raise(t, "KeyError")
                                ELSE [threads EXCEPT ![t].pc = "file:252",
                                                     ![t].timestamp = index[i].timestamp]
                  /\ UNCHANGED << file_state, stats >>
             [] th.pc = "file:252" ->   \* if self._is_expired(metadata.get("timestamp", 0)):
                  /\ threads' = Goto(t, IF _is_expired(th.timestamp) THEN "file:254"
                                        ELSE "file:263")
                  /\ UNCHANGED << file_state, stats >>
             [] th.pc = "file:254" ->   \* if cache_file.exists():
                  /\ threads' = [threads EXCEPT
                                   ![t].pc = IF here THEN "file:255" ELSE "file:256",
                                   ![t].torn = (i # 0 /\ ~here)]
                  /\ UNCHANGED << file_state, stats >>
             [] th.pc = "file:255" ->   \* cache_file.unlink()
                  /\ threads' = IF here THEN Goto(t, "file:256")
                                ELSE Raise(t, "FileNotFoundError")
                  /\ files' = Unlink(files, key)
                  /\ UNCHANGED << index, index_file, stats >>
             [] th.pc \in {"file:256", "file:264"} ->   \* del self._index[key]
                  /\ threads' = IF i = 0 THEN Raise(t, "KeyError")
                                ELSE Goto(t, IF th.pc = "file:256" THEN "file:257"
                                             ELSE "file:265")
                  /\ index' = RemoveKey(index, key)
                  /\ UNCHANGED << files, index_file, stats >>
             [] th.pc \in {"file:257", "file:265"} ->   \* self._save_index()
                  /\ threads' = Goto(t, "miss")
                  /\ index_file' = _save_index(index)
                  /\ UNCHANGED << index, files, stats >>
             [] th.pc = "file:263" ->   \* if not cache_file.exists():
                  /\ threads' = [threads EXCEPT
                                   ![t].pc = IF here THEN "file:270" ELSE "file:264",
                                   ![t].torn = (i # 0 /\ ~here)]
                  /\ UNCHANGED << file_state, stats >>
             [] th.pc = "file:270" ->   \* open(cache_file, "r"); translated = f.read()
                  /\ threads' = IF here
                                THEN [threads EXCEPT
                                        ![t].pc = "hit",
                                        ![t].translated = TextRead(FileContent(files, key)),
                                        ![t].torn = (FileContent(files, key) = <<>>)]
                                ELSE Goto(t, "miss")   \* except IOError
                  /\ UNCHANGED << file_state, stats >>
             [] th.pc = "file:291" ->   \* if len(self._index) >= self.max_size:
                  /\ threads' = Goto(t, IF Len(index) >= max_size THEN "file:293"
                                        ELSE "file:306")
                  /\ UNCHANGED << file_state, stats >>
             [] th.pc = "file:293" ->   \* oldest_key = sorted(...)[0][0]
                  /\ threads' = IF index = <<>> THEN Raise(t, "IndexError")
                                ELSE [threads EXCEPT ![t].pc = "file:299",
                                                     ![t].oldest_key = OldestKey(index)]
                  /\ UNCHANGED << file_state, stats >>
             [] th.pc = "file:299" ->   \* if cache_file.exists():
                  /\ threads' = Goto(t, IF FileExists(files, th.oldest_key)
                                        THEN "file:300" ELSE "file:301")
                  /\ UNCHANGED << file_state, stats >>
             [] th.pc = "file:300" ->   \* cache_file.unlink()
                  /\ threads' = IF FileExists(files, th.oldest_key)
                                THEN Goto(t, "file:301")
                                ELSE Raise(t, "FileNotFoundError")
                  /\ files' = Unlink(files, th.oldest_key)
                  /\ UNCHANGED << index, index_file, stats >>
             [] th.pc = "file:301" ->   \* del self._index[oldest_key]
                  /\ threads' = IF PosOf(index, th.oldest_key) = 0
                                THEN Raise(t, "KeyError")
                                ELSE Goto(t, "file:306")
                  /\ index' = RemoveKey(index, th.oldest_key)
                  /\ UNCHANGED << files, index_file, stats >>
             [] th.pc = "file:306" ->   \* with open(cache_file, "w") as f:
                  /\ threads' = Goto(t, "file:307")
                  /\ files' = WriteFile(files, key, <<>>)
                  /\ UNCHANGED << index, index_file, stats >>
             [] th.pc = "file:307" ->   \* f.write(translated), and the file is closed
                  /\ threads' = Goto(t, "file:310")
                  /\ files' = WriteFile(files, key, TextWrite(th.translated))
                  /\ UNCHANGED << index, index_file, stats >>
             [] th.pc = "file:310" ->   \* self._index[key] = {...}
                  /\ threads' = Goto(t, "file:315")
                  /\ index' = DictSet(index, entry)
                  /\ UNCHANGED << files, index_file, stats >>
             [] th.pc = "file:315" ->   \* self._save_index()
                  /\ threads' = Goto(t, "file:316")
                  /\ index_file' = _save_index(index)
                  /\ UNCHANGED << index, files, stats >>
             [] th.pc = "file:316" ->   \* self.stats.total_entries = len(self._index)
                  /\ threads' = Return(t)
                  /\ stats' = [stats EXCEPT !.total_entries = Len(index)]
                  /\ UNCHANGED file_state
             [] OTHER -> FALSE
        /\ UNCHANGED << kind, max_size, ttl, faults, calls, derived, translator, pair, alive, now,
                        memory_state, sqlite_state, medium, ret, recency, fill, fillOK,
                        gets >>

\* no thread has started a call: the instance is still used by one thread
Sequential == \A t \in Threads : threads[t].n = 0

\* one thread fills the instance and time passes; then every thread makes its calls
NextThreads ==
    \/ /\ Sequential
       /\ \E req \in ThreadRequests :
              MemorySet(req, Oui) \/ FileSet(req, Oui) \/ SQLiteSet(req, Oui)
       /\ UNCHANGED << translator, pair >>
    \/ Sequential /\ Tick
    \/ \E t \in Threads, op \in {"get", "set"}, req \in ThreadRequests :
           ThreadCall(t, op, req)
    \/ \E t \in Threads : MissLoad(t)
    \/ \E t \in Threads : MissStore(t)
    \/ \E t \in Threads : HitLoad(t)
    \/ \E t \in Threads : HitStore(t)
    \/ \E t \in Threads : MemoryStep(t)
    \/ \E t \in Threads : FileStep(t)
    \/ \E t \in Threads : SQLiteStep(t)

SpecThreads == Init /\ [][NextThreads]_vars


(***************************************************************************)
(* stats().  __init__ binds the name stats on the instance to a CacheStats *)
(* record, and an attribute of the instance is found before a method of    *)
(* its class: the call cache.stats() calls that record.                    *)
(***************************************************************************)
\* the attributes TranslationCache.__init__ sets on the instance
InstanceAttributes == {"max_size", "ttl", "stats"}

\* CacheStats.hit_rate, as the fraction << numerator, denominator >>
hit_rate(s) ==
    LET total == s.hits + s.misses
    IN  IF total > 0 THEN <<s.hits, total>> ELSE <<0, 1>>

\* the dict the stats methods of the backends build (size_mb left out)
StatsMethod ==
    [total_entries |-> IF kind = "sqlite" THEN Len(db) ELSE stats.total_entries,
     hits |-> stats.hits, misses |-> stats.misses, hit_rate |-> hit_rate(stats),
     type |-> kind]

\* cache.stats()
Stats ==
    /\ alive
    /\ ret' = IF "stats" \in InstanceAttributes
              THEN RetRaise("stats", NoReq, <<>>, None, "TypeError")
              ELSE Ret("stats", NoReq, <<>>, None, "ok", Some(StatsMethod), 0, FALSE, {})
    /\ UNCHANGED << config, translator, pair, alive, now, stats, memory_state, file_state,
                    sqlite_state, medium, recency, fill, fillOK, gets >>

NextStats ==
    \/ Next
    \/ Stats

SpecStats == Init /\ [][NextStats]_vars

(***************************************************************************)
(* The Translator over one cache instance.  translate runs in up to three  *)
(* steps: the checks and the cache lookup, the provider, the store.  The   *)
(* provider is outside the program: each of its calls answers or raises    *)
(* APIError.  The clock and the environment move between the steps.        *)
(***************************************************************************)
\* translate calls per behaviour
MaxTranslations == 2

default_source_lang == <<"a","u","t","o">>
default_target_lang == <<"e","n">>

\* what the provider detects and what it answers
DetectedLanguage == <<"e","n">>
ProviderOutcomes == {"ok", "APIError"}

\* the translate(text, source_lang, target_lang, use_cache, **options) calls
TranslateCall(text, source_lang, target_lang, use_cache, options) ==
    [text |-> text, source_lang |-> source_lang, target_lang |-> target_lang,
     use_cache |-> use_cache, options |-> options]
TranslateInputs ==
    LET hello == <<" ","h","e","l","l","o">>
        en == Some(<<"e","n">>)
        zh == Some(<<"z","h">>)
    IN  { TranslateCall(hello, None, zh, TRUE, NoOptions),
          TranslateCall(hello, en, zh, TRUE, NoOptions),
          TranslateCall(hello, en, zh, TRUE, Glossary),
          TranslateCall(hello, en, zh, FALSE, NoOptions),
          TranslateCall(hello, None, None, TRUE, NoOptions),
          TranslateCall(hello, Some(<<"x","x">>), zh, TRUE, NoOptions),
          TranslateCall(<<" ">>, None, None, TRUE, NoOptions) }

validate_language_code(code) ==
    IF code = <<>> THEN FALSE
    ELSE LET normalized == normalize_language_code(code)
         IN  normalized = <<"a","u","t","o">> \/ normalized \in LANGUAGE_NAMES

\* everything but the translator
cache_vars == << kind, alive, max_size, ttl, now, stats, cache, index, index_file,
                 files, db, db_file, medium, ret, recency, fill, fillOK, gets,
                 faults, calls, derived, threads >>

\* self.cache.get and self.cache.set on the backend the Translator was given
CacheGet(req) == MemoryGet(req) \/ FileGet(req) \/ SQLiteGet(req)
CacheSet(req, translated) ==
    MemorySet(req, translated) \/ FileSet(req, translated) \/ SQLiteSet(req, translated)

\* what the caller gets: a TranslationResult(text, cached), the list of
\* translate_batch, or an exception
Result(text, cached) ==
    [kind |-> "result", text |-> text, cached |-> cached, error |-> "", results |-> <<>>]
Results(results) ==
    [kind |-> "results", text |-> <<>>, cached |-> FALSE, error |-> "",
     results |-> results]
Raised(error) ==
    [kind |-> "raised", text |-> <<>>, cached |-> FALSE, error |-> error,
     results |-> <<>>]

\* a TranslationResult in a list
TranslationResult(text, cached) == [text |-> text, cached |-> cached]

\* the call ends
Finish(tr, path, out) ==
    [tr EXCEPT !.pc = "idle", !.path = path, !.out = out, !.finished = <<now, faults>>]

\* translate up to the cache lookup
TranslateLookup(inp) ==
    /\ translator.pc = "idle"
    /\ translator.n < MaxTranslations
    /\ LET source == IF inp.source_lang # None THEN inp.source_lang[1]
                     ELSE default_source_lang
           target == IF inp.target_lang # None THEN inp.target_lang[1]
                     ELSE default_target_lang
           processed_text == preprocess_text(inp.text)
           req == [text |-> processed_text, source_lang |-> source,
                   target_lang |-> target, options |-> inp.options]
           started == [translator EXCEPT !.asked = inp, !.n = @ + 1, !.lookup = req,
                                         !.source = source, !.translated = <<>>]
       IN  IF inp.text = <<>> \/ Strip(inp.text) = <<>>
           THEN /\ translator' = Finish(started, "blank", Result(<<>>, FALSE))
                /\ UNCHANGED cache_vars
           ELSE IF \/ source # <<"a","u","t","o">> /\ ~validate_language_code(source)
                   \/ ~validate_language_code(target)
           THEN /\ translator' = Finish(started, "invalid",
                                        Raised("LanguageNotSupportedError"))
                /\ UNCHANGED cache_vars
           ELSE IF ~inp.use_cache
           THEN /\ translator' = [started EXCEPT !.pc = "436"]
                /\ UNCHANGED cache_vars
           ELSE /\ CacheGet(req)
                /\ translator' =
                     IF ret'.raised
                     THEN Finish(started, "get raised", Raised(ret'.path))
                     ELSE IF ret'.result # None
                     THEN Finish(started, "hit", Result(ret'.result[1], TRUE))
                     ELSE [started EXCEPT !.pc = "436"]
    /\ UNCHANGED pair

\* language detection for "auto", then provider.translate
TranslateProvider ==
    /\ translator.pc = "436"
    /\ \E detection \in ProviderOutcomes, answer \in ProviderOutcomes :
          LET auto == translator.source = <<"a","u","t","o">>
              source == IF auto THEN DetectedLanguage ELSE translator.source
              path == IF translator.asked.use_cache THEN "miss" ELSE "direct"
              called == [translator EXCEPT !.source = source,
                                           !.provider_calls = @ + 1]
          IN  translator' =
                IF auto /\ detection = "APIError"
                THEN Finish(translator, path, Raised("APIError"))
                ELSE IF answer = "APIError"
                THEN Finish(called, path, Raised("APIError"))
                ELSE IF translator.asked.use_cache
                THEN [called EXCEPT !.pc = "444", !.translated = Oui]
                ELSE Finish([called EXCEPT !.translated = Oui], path,
                            Result(Oui, FALSE))
    /\ UNCHANGED cache_vars
    /\ UNCHANGED pair

\* the store of the provider's text; what cache.set raises is dropped
TranslateStore ==
    /\ translator.pc = "444"
    /\ LET req == [translator.lookup EXCEPT !.source_lang = translator.source]
       IN  /\ CacheSet(req, translator.translated)
           /\ translator' = Finish(translator, "miss",
                                   Result(translator.translated, FALSE))
    /\ UNCHANGED pair

\* the translate_batch(texts, source_lang, target_lang, use_cache, **options) calls
BatchCall(texts, source_lang, target_lang, use_cache, options) ==
    [texts |-> texts, source_lang |-> source_lang, target_lang |-> target_lang,
     use_cache |-> use_cache, options |-> options]
BatchInputs ==
    LET hello == <<" ","h","e","l","l","o">>
        en == Some(<<"e","n">>)
        zh == Some(<<"z","h">>)
    IN  { BatchCall(<<hello>>, en, zh, TRUE, NoOptions),
          BatchCall(<<hello>>, None, zh, TRUE, NoOptions),
          BatchCall(<< <<" ">>, hello >>, en, zh, TRUE, NoOptions),
          BatchCall(<<hello>>, en, zh, FALSE, NoOptions),
          BatchCall(<<hello>>, Some(<<"x","x">>), zh, FALSE, NoOptions),
          BatchCall(<<>>, None, None, TRUE, NoOptions) }

\* translate_batch up to its loops
BatchStart(inp) ==
    /\ translator.pc = "idle"
    /\ translator.n < MaxTranslations
    /\ LET source == IF inp.source_lang # None THEN inp.source_lang[1]
                     ELSE default_source_lang
           target == IF inp.target_lang # None THEN inp.target_lang[1]
                     ELSE default_target_lang
           len == Len(inp.texts)
           b == [NoBatch EXCEPT !.inp = inp, !.source = source, !.target = target]
           started == [translator EXCEPT !.n = @ + 1]
       IN  translator' =
             IF inp.texts = <<>>
             THEN Finish([started EXCEPT !.batch = b], "batch", Results(<<>>))
             ELSE IF inp.use_cache
             THEN [started EXCEPT
                     !.pc = "489",
                     !.batch = [b EXCEPT !.i = 1,
                                         !.cached_results = [k \in 1..len |-> None]]]
             ELSE [started EXCEPT
                     !.pc = "526",
                     !.batch = [b EXCEPT !.j = 1,
                                         !.uncached_indices = [k \in 1..len |-> k],
                                         !.results = [k \in 1..len |-> None]]]
    /\ UNCHANGED cache_vars
    /\ UNCHANGED pair

\* one round of the lookup loop; after the last round the results are laid out
BatchLookup ==
    /\ translator.pc = "489"
    /\ LET b == translator.batch
           texts == b.inp.texts
           text == texts[b.i]
           req == [text |-> preprocess_text(text), source_lang |-> b.source,
                   target_lang |-> b.target, options |-> b.inp.options]
           Filled(bb) ==
               [bb EXCEPT !.results = @ \o [k \in 1..Len(texts) |-> bb.cached_results[k]]]
           After(bb) ==
               IF b.i < Len(texts)
               THEN [translator EXCEPT !.batch = [bb EXCEPT !.i = @ + 1]]
               ELSE IF bb.uncached_indices # <<>>
               THEN [translator EXCEPT !.pc = "526",
                                       !.batch = [Filled(bb) EXCEPT !.j = 1]]
               ELSE Finish([translator EXCEPT !.batch = Filled(bb)], "batch",
                           Results(Filled(bb).results))
       IN  IF text = <<>> \/ Strip(text) = <<>>
           THEN /\ translator' =
                     After([b EXCEPT !.results =
                                        Append(@, Some(TranslationResult(<<>>, FALSE)))])
                /\ UNCHANGED cache_vars
           ELSE /\ CacheGet(req)
                /\ translator' =
                     IF ret'.raised
                     THEN Finish(translator, "get raised", Raised(ret'.path))
                     ELSE IF ret'.result # None
                     THEN After([b EXCEPT !.cached_results[b.i] =
                                   Some(TranslationResult(ret'.result[1], TRUE))])
                     ELSE After([b EXCEPT !.uncached_indices = Append(@, b.i)])
    /\ UNCHANGED pair

\* self.translate(text, source, target, use_cache=False) on one uncached text
BatchTranslate ==
    /\ translator.pc = "526"
    /\ \E detection \in ProviderOutcomes, answer \in ProviderOutcomes :
          LET b == translator.batch
              idx == b.uncached_indices[b.j]
              text == b.inp.texts[idx]
              called == [translator EXCEPT !.provider_calls = @ + 1]
              After(tr, result) ==
                  LET bb == [b EXCEPT !.results[idx] = Some(result)]
                  IN  IF b.j < Len(b.uncached_indices)
                      THEN [tr EXCEPT !.batch = [bb EXCEPT !.j = @ + 1]]
                      ELSE IF b.inp.use_cache
                      THEN [tr EXCEPT !.pc = "547", !.batch = [bb EXCEPT !.j = 1]]
                      ELSE Finish([tr EXCEPT !.batch = bb], "batch", Results(bb.results))
          IN  translator' =
                IF text = <<>> \/ Strip(text) = <<>>
                THEN After(translator, TranslationResult(<<>>, FALSE))
                ELSE IF \/ /\ b.source # <<"a","u","t","o">>
                           /\ ~validate_language_code(b.source)
                        \/ ~validate_language_code(b.target)
                THEN Finish(translator, "batch", Raised("LanguageNotSupportedError"))
                ELSE IF b.source = <<"a","u","t","o">> /\ detection = "APIError"
                THEN Finish(translator, "batch", Raised("APIError"))
                ELSE IF answer = "APIError"
                THEN Finish(called, "batch", Raised("APIError"))
                ELSE After(called, TranslationResult(Oui, FALSE))
    /\ UNCHANGED cache_vars
    /\ UNCHANGED pair

\* the store of one uncached text; what cache.set raises is dropped
BatchStore ==
    /\ translator.pc = "547"
    /\ LET b == translator.batch
           idx == b.uncached_indices[b.j]
           result == b.results[idx]
           req == [text |-> preprocess_text(b.inp.texts[idx]), source_lang |-> b.source,
                   target_lang |-> b.target, options |-> b.inp.options]
           after == IF b.j < Len(b.uncached_indices)
                    THEN [translator EXCEPT !.batch.j = @ + 1]
                    ELSE Finish(translator, "batch", Results(b.results))
       IN  IF result # None /\ result[1].text # <<>>
           THEN /\ CacheSet(req, result[1].text)
                /\ translator' = after
           ELSE /\ translator' = after
                /\ UNCHANGED cache_vars
    /\ UNCHANGED pair

NextTranslator ==
    \/ \E inp \in TranslateInputs : TranslateLookup(inp)
    \/ TranslateProvider
    \/ TranslateStore
    \/ \E inp \in BatchInputs : BatchStart(inp)
    \/ BatchLookup
    \/ BatchTranslate
    \/ BatchStore
    \/ Tick
    \/ Environment

SpecTranslator == Init /\ [][NextTranslator]_vars

(***************************************************************************)
(* A FileCache and a SQLiteCache side by side                              *)
(*                                                                         *)
(* Two instances built with the same max_size and ttl, over an empty       *)
(* directory and an empty database, are given the same sequence of calls   *)
(* at the same times.  The file instance takes each call first, then the   *)
(* SQLite instance; index, index_file and files belong to the first, db    *)
(* and db_file to the second, and the counters of the instance that waits  *)
(* are kept in pair.other.                                                 *)
(***************************************************************************)
\* a call of the two instances: <<"get", req>>, <<"set", req, translated>> or
\* <<"clear", pattern>> with pattern None or Some(p)
PairCalls ==
    { <<"get", req>> : req \in Requests }
      \cup { <<"set", input[1], input[2]>> : input \in SetInputs }
      \cup { <<"clear", pattern>> : pattern \in {None} \cup { Some(p) : p \in Patterns } }

\* what the call recorded in r gave back to its caller: the result of a get, the
\* count of a clear, the exception if it raised
Answer(r) == << r.op, r.result, r.count, r.raised >>

\* the set just made stored an entry at the timestamp of an entry of another key
Tie(entries, key) ==
    \E i \in 1..Len(entries) : entries[i].key # key /\ entries[i].timestamp = now

\* the file instance executes the call
PairFile(c) ==
    /\ pair.turn = "file"
    /\ \/ c[1] = "get" /\ FileGet(c[2])
       \/ c[1] = "set" /\ FileSet(c[2], c[3])
       \/ c[1] = "clear" /\ FileClear(c[2])
    /\ pair' = [pair EXCEPT !.turn = "switch", !.called = c, !.answer = Answer(ret'),
                            !.tied = pair.tied \/ (c[1] = "set" /\ Tie(index', Key(c[2])))]
    /\ UNCHANGED translator

\* the caller turns to the other instance
PairSwitch ==
    /\ pair.turn = "switch"
    /\ kind' = IF kind = "file" THEN "sqlite" ELSE "file"
    /\ stats' = pair.other.stats
    /\ gets' = pair.other.gets
    /\ pair' = [pair EXCEPT !.turn = kind',
                            !.other = [stats |-> stats, gets |-> gets]]
    /\ UNCHANGED << max_size, ttl, faults, calls, derived, threads, translator, alive,
                    now, memory_state, file_state, sqlite_state, medium, ret, recency,
                    fill, fillOK >>

\* the SQLite instance executes the call the file instance was given
PairSQLite ==
    LET c == pair.called
    IN  /\ pair.turn = "sqlite"
        /\ \/ c[1] = "get" /\ SQLiteGet(c[2])
           \/ c[1] = "set" /\ SQLiteSet(c[2], c[3])
           \/ c[1] = "clear" /\ SQLiteClear(c[2])
        /\ pair' = [pair EXCEPT !.turn = "switch",
                                !.same = pair.same /\ Answer(ret') = pair.answer,
                                !.tied = pair.tied \/ (c[1] = "set" /\ Tie(db', Key(c[2])))]
        /\ UNCHANGED translator

\* time passes between two calls
PairTick == pair.turn = "file" /\ Tick

InitPair == Init /\ kind = "file"

NextPair ==
    \/ \E c \in PairCalls : PairFile(c)
    \/ PairSwitch
    \/ PairSQLite
    \/ PairTick

SpecPair == InitPair /\ [][NextPair]_vars

(***************************************************************************)
(* Reopening a directory or a database with another max_size               *)
(*                                                                         *)
(* The process that held the instance ends, and the next one constructs    *)
(* FileCache or SQLiteCache over the same location with a max_size of its  *)
(* own choice; what is persisted stays as it is.                           *)
(***************************************************************************)
\* the instance is dropped; m is the max_size the next constructor is given
Close(m) ==
    /\ kind \in {"file", "sqlite"}
    /\ alive
    /\ alive' = FALSE
    /\ max_size' = m
    /\ UNCHANGED << kind, ttl, faults, calls, derived, threads, translator, pair, now,
                    stats, memory_state, file_state, sqlite_state, medium, ret,
                    recency, fill, fillOK, gets >>

InitReopen == Init /\ kind \in {"file", "sqlite"}

NextReopen ==
    \/ FileNext
    \/ SQLiteNext
    \/ Tick
    \/ \E m \in 1..MaxSize : Close(m)

SpecReopen == InitReopen /\ [][NextReopen]_vars

(***************************************************************************)
(* Vocabulary of the properties                                            *)
(***************************************************************************)
\* the entries the instance holds: map, index or table
Stored ==
    CASE kind = "memory" -> cache
      [] kind = "file" -> index
      [] kind = "sqlite" -> db

StoredKeys == KeysOf(Stored)

\* the age of the stored entry of key
Age(key) == now - Stored[PosOf(Stored, key)].timestamp

\* the step is the call named; the record of the call is compared first
GetStep(req) ==
    /\ ret'.op = "get" /\ ret'.req = req
    /\ (MemoryGet(req) \/ FileGet(req) \/ SQLiteGet(req))

SetStep(req, translated) ==
    /\ ret'.op = "set" /\ ret'.req = req /\ ret'.translated = translated
    /\ \/ MemorySet(req, translated)
       \/ FileSet(req, translated)
       \/ SQLiteSet(req, translated)

ClearStep(pattern) ==
    /\ ret'.op = "clear" /\ ret'.pattern = pattern
    /\ (MemoryClear(pattern) \/ FileClear(pattern) \/ SQLiteClear(pattern))

ConstructStep ==
    /\ ret'.op = "construct"
    /\ (MemoryConstruct \/ FileConstruct \/ SQLiteConstruct)

\* the languages the set calls of the model record for key
RecordedRequest(key) == CHOOSE req \in Requests : Key(req) = key

(***************************************************************************)
(* C1: on every backend, a set that completed followed immediately by a    *)
(* get of the same request, before the ttl elapses, returns exactly the    *)
(* translated text that was set and counts as a hit.                       *)
(***************************************************************************)
C1_RoundTrip ==
    [][ \A req \in Requests :
          ( /\ ret.op = "set" /\ ~ret.raised /\ ret.req = req
            /\ now - ret.at <= ttl
            /\ max_size >= 1
            /\ GetStep(req) )
          => ( /\ ret'.result = Some(ret.translated)
               /\ stats'.hits = stats.hits + 1
               /\ stats'.misses = stats.misses ) ]_vars

(***************************************************************************)
(* C2: on every backend get never returns an entry whose age is greater    *)
(* than ttl, and returns every stored entry whose age is at most ttl,      *)
(* the age equal to ttl included.                                          *)
(***************************************************************************)
C2_TTLValidity ==
    [][ \A req \in Requests :
          GetStep(req) =>
            LET key == Key(req)
                stored == key \in StoredKeys
            IN  /\ ret'.result # None => (stored /\ Age(key) <= ttl)
                /\ (stored /\ Age(key) <= ttl) => ret'.result # None ]_vars

\* a get has returned an entry whose age is exactly ttl
C2_Witness ==
    /\ ret.op = "get" /\ ret.result # None
    /\ Key(ret.req) \in StoredKeys
    /\ Age(Key(ret.req)) = ttl
    /\ ttl > 0

(***************************************************************************)
(* C3: on every backend a get that finds an expired entry returns absent,  *)
(* adds exactly 1 to misses and removes the entry: the map entry, the      *)
(* index entry with its file and the persisted index, or the row.          *)
(***************************************************************************)
C3_LazyExpiry ==
    [][ \A req \in Requests :
          ( /\ GetStep(req)
            /\ Key(req) \in StoredKeys
            /\ Age(Key(req)) > ttl )
          => ( /\ ret'.result = None /\ ~ret'.raised
               /\ stats'.misses = stats.misses + 1
               /\ stats'.hits = stats.hits
               /\ Key(req) \notin StoredKeys'
               /\ StoredKeys' = StoredKeys \ {Key(req)}
               /\ kind = "file" =>
                    /\ ~FileExists(files', Key(req))
                    /\ index_file' = [state |-> "mapping", content |-> index'] ) ]_vars

\* a get has found an expired entry and the key is stored no more
C3_Witness ==
    /\ ret.op = "get" /\ ret.path = "expired"
    /\ Key(ret.req) \notin StoredKeys
    /\ stats.misses >= 1

(***************************************************************************)
(* C4: on every backend started empty with max_size >= 1 the number of     *)
(* stored entries never exceeds max_size after a set, and after the        *)
(* insertion of max_size + k distinct keys exactly max_size entries are    *)
(* stored, the k keys inserted first being the missing ones.               *)
(***************************************************************************)
\* the last n elements of seq, all of it when it is shorter
LastN(seq, n) == SubSeq(seq, IF Len(seq) > n THEN Len(seq) - n + 1 ELSE 1, Len(seq))

C4_CapacityBound ==
    /\ (alive /\ ret.op = "set") => Len(Stored) <= max_size
    /\ (alive /\ fillOK) =>
          /\ StoredKeys = { LastN(fill, max_size)[i] : i \in 1..Len(LastN(fill, max_size)) }
          /\ Len(Stored) = IF Len(fill) > max_size THEN max_size ELSE Len(fill)

\* more distinct keys than max_size have been inserted into the empty store
C4_Witness ==
    /\ fillOK /\ Len(fill) > max_size
    /\ ret.op = "set" /\ ret.evicted # {}
    /\ Len(Stored) = max_size

(***************************************************************************)
(* C5: whenever MemoryCache.set evicts, the evicted entry is the stored    *)
(* one whose latest set or hit is the earliest; with capacity 2, set A,    *)
(* set B, get A, set C evicts B and keeps A.                               *)
(***************************************************************************)
C5_LRUOrdering ==
    [][ \A input \in SetInputs :
          (kind = "memory" /\ SetStep(input[1], input[2])) =>
            LET lost == (KeysOf(cache) \ KeysOf(cache')) \ {Key(input[1])}
            IN  /\ { recency[i] : i \in 1..Len(recency) } = KeysOf(cache)
                /\ lost # {} => lost = {Head(recency)}
                /\ ret'.evicted = lost ]_vars

\* capacity 2: hello was set before bye, then hit by a get; the set of yes has
\* evicted bye and kept hello
C5_Witness ==
    /\ kind = "memory" /\ max_size = 2
    /\ ret.op = "set" /\ ret.req = ReqYes
    /\ ret.evicted = {Key(ReqBye)}
    /\ KeysOf(cache) = {Key(ReqHello), Key(ReqYes)}
    /\ stats.hits = 1 /\ gets = 1
    /\ cache[1].timestamp < cache[2].timestamp

(***************************************************************************)
(* C6: on every backend clear(p) removes exactly the entries whose         *)
(* recorded source or target language contains p, keeps every other        *)
(* entry and returns the number of entries removed.                        *)
(***************************************************************************)
C6_PatternClear ==
    [][ \A p \in Patterns :
          ClearStep(Some(p)) =>
            LET matching ==
                  { k \in StoredKeys :
                      \/ Contains(p, RecordedRequest(k).source_lang)
                      \/ Contains(p, RecordedRequest(k).target_lang) }
            IN  /\ StoredKeys' = StoredKeys \ matching
                /\ ret'.count = Cardinality(matching) ]_vars

(***************************************************************************)
(* C7: on every backend clear() returns the number of entries stored       *)
(* before the call and leaves the store empty, and a get on the empty      *)
(* store is a miss that leaves it empty.                                   *)
(***************************************************************************)
C7_FullClear ==
    [][ /\ ClearStep(None) =>
              /\ ~ret'.raised
              /\ ret'.count = Len(Stored)
              /\ Stored' = <<>>
              /\ kind = "file" =>
                   /\ \A k \in StoredKeys : ~FileExists(files', k)
                   /\ index_file' = [state |-> "mapping", content |-> <<>>]
        /\ \A req \in Requests :
              (GetStep(req) /\ Stored = <<>>) =>
                  /\ ret'.result = None
                  /\ stats'.misses = stats.misses + 1
                  /\ Stored' = <<>> ]_vars

\* clear() has removed two entries and reported them
C7_Witness ==
    /\ ret.op = "clear" /\ ret.pattern = None /\ ~ret.raised
    /\ ret.count = 2
    /\ Stored = <<>>

(***************************************************************************)
(* C8: each get that returns adds exactly 1 to exactly one of hits and     *)
(* misses, to hits iff it returns a value; set and clear leave both        *)
(* alone; so neither decreases on an instance and hits + misses is the     *)
(* number of gets that returned on it.                                     *)
(***************************************************************************)
C8_CounterAccounting ==
    [][ /\ \A req \in Requests :
              (GetStep(req) /\ ~ret'.raised) =>
                  \/ /\ ret'.result # None
                     /\ stats'.hits = stats.hits + 1
                     /\ stats'.misses = stats.misses
                  \/ /\ ret'.result = None
                     /\ stats'.misses = stats.misses + 1
                     /\ stats'.hits = stats.hits
        /\ \A input \in SetInputs :
              SetStep(input[1], input[2]) =>
                  stats'.hits = stats.hits /\ stats'.misses = stats.misses
        /\ \A pattern \in {None} \cup { Some(p) : p \in Patterns } :
              ClearStep(pattern) =>
                  stats'.hits = stats.hits /\ stats'.misses = stats.misses
        /\ ~ConstructStep =>
              stats'.hits >= stats.hits /\ stats'.misses >= stats.misses
        /\ stats'.hits + stats'.misses = gets' ]_vars

\* one hit and one miss have been counted on an instance
C8_Witness ==
    /\ alive /\ gets = 2
    /\ stats.hits = 1 /\ stats.misses = 1
    /\ ret.op = "get"

(***************************************************************************)
(* C9: on every backend set returns normally, without raising, when the    *)
(* medium cannot be written.                                               *)
(***************************************************************************)
C9_SetNeverRaises ==
    (ret.op = "set" /\ medium # "ok" /\ db_file = "ok") => ~ret.raised

(***************************************************************************)
(* C10: constructing the file backend over a missing, unreadable or        *)
(* corrupt index file, and the SQLite backend over a missing or corrupt    *)
(* database file, completes without raising and gives an empty store.      *)
(***************************************************************************)
C10_ConstructionNeverFatal ==
    (ret.op = "construct" /\ medium = "ok" /\ index_file.state # "not_utf8") =>
        /\ ~ret.raised
        /\ alive
        /\ ret.path \in (IndexFileStates \cup {"corrupt"}) => Stored = <<>>

(***************************************************************************)
(* C11: when FileCache.get finds an unexpired index entry whose backing    *)
(* file is missing, it does not raise, returns None and counts one miss;   *)
(* it removes that entry from the index and leaves every other entry as    *)
(* it was, and on a writable medium index.json holds the new index.        *)
(***************************************************************************)
C11_SelfHealingRead ==
    [][ \A req \in Requests :
          LET key == Key(req)
              i == PosOf(index, key)
          IN  ( /\ kind = "file" /\ i # 0
                /\ ~(now - index[i].timestamp > ttl)
                /\ ~FileExists(files, key)
                /\ GetStep(req) )
              => ( /\ ~ret'.raised
                   /\ ret'.result = None
                   /\ stats'.misses = stats.misses + 1
                   /\ stats'.hits = stats.hits
                   /\ index' = SelectSeq(index, LAMBDA e : e.key # key)
                   /\ files' = files
                   /\ medium = "ok" =>
                        index_file' = [state |-> "mapping", content |-> index'] ) ]_vars

\* a get has healed the index of a lost file and another entry is still indexed
C11_Witness ==
    /\ kind = "file" /\ alive
    /\ ret.op = "get" /\ ret.path = "missing_file" /\ ~ret.raised
    /\ PosOf(index, Key(ret.req)) = 0
    /\ Len(index) = 1 /\ FileExists(files, index[1].key)
    /\ index_file = [state |-> "mapping", content |-> index]

\* the options of the allow-list that opts holds, with their values
AllowListed(opts) ==
    { opts[i] : i \in { j \in 1..Len(opts) :
                          opts[j][1] \in {"formality", "domain", "preserve_formatting"} } }

(***************************************************************************)
(* C12: two generate_cache_key calls with the same text, source language   *)
(* and target language whose options agree on formality, domain and        *)
(* preserve_formatting derive the same key, whatever other options are     *)
(* present or absent.                                                      *)
(***************************************************************************)
C12_OptionAllowList ==
    ( /\ Len(calls) = 2
      /\ calls[1].text = calls[2].text
      /\ calls[1].source_lang = calls[2].source_lang
      /\ calls[1].target_lang = calls[2].target_lang
      /\ AllowListed(calls[1].options) = AllowListed(calls[2].options) )
    => derived[1] = derived[2]

\* two calls that differ in a non-allow-listed option only, next to an allow-listed one
C12_Witness ==
    /\ Len(calls) = 2
    /\ calls[1].text = calls[2].text
    /\ calls[1].source_lang = calls[2].source_lang
    /\ calls[1].target_lang = calls[2].target_lang
    /\ calls[1].options = << <<"formality", <<"x">> >> >>
    /\ calls[2].options = << <<"glossary", <<"g">> >>, <<"formality", <<"x">> >> >>
    /\ derived[1] = derived[2]

\* C12, on the backends (checked under SpecTranslator): an entry set with an option
\* outside the allow-list is returned by the next get made without that option
C12_FoundWithoutExtraOptions ==
    [][ ( /\ ret.op = "set" /\ ~ret.raised /\ ret.path = "ok"
          /\ ret.req = ReqHelloGlossary
          /\ now - ret.at <= ttl /\ faults = 0
          /\ GetStep(ReqHello) )
        => ( /\ ret'.result = Some(ret.translated)
             /\ stats'.hits = stats.hits + 1 ) ]_vars

\* the maximal runs of non-whitespace characters of s, in order
RECURSIVE Words(_)
Words(s) ==
    IF s = <<>> THEN <<>>
    ELSE IF Head(s) \in {" ", "LF", "CR", "TAB"} THEN Words(Tail(s))
    ELSE LET rest == Words(Tail(s))
         IN IF Len(s) >= 2 /\ s[2] \notin {" ", "LF", "CR", "TAB"}
            THEN << <<Head(s)>> \o Head(rest) >> \o Tail(rest)
            ELSE << <<Head(s)>> >> \o rest

\* a language code without its letter case, its surrounding whitespace and the
\* region suffix of a known base language
BareLanguage(code) ==
    LET words == Words(code)
        c == IF Len(words) = 1 THEN [i \in 1..Len(words[1]) |-> LowerChar(words[1][i])]
             ELSE IF words = <<>> THEN <<>> ELSE code
        known == { l \in LANGUAGE_NAMES : /\ Len(c) > Len(l)
                                          /\ SubSeq(c, 1, Len(l)) = l
                                          /\ c[Len(l) + 1] = "-" }
    IN IF known = {} THEN c ELSE CHOOSE l \in known : TRUE

(***************************************************************************)
(* C13: two requests whose texts differ only in leading or trailing        *)
(* whitespace or in the length of internal whitespace runs, whose language *)
(* codes differ only in letter case, surrounding whitespace or the region  *)
(* suffix of a known base language, and whose allow-listed options are the *)
(* same, derive the same key.                                              *)
(***************************************************************************)
C13_KeyEqualityUnderNormalization ==
    ( /\ Len(calls) = 2
      /\ Words(calls[1].text) = Words(calls[2].text)
      /\ BareLanguage(calls[1].source_lang) = BareLanguage(calls[2].source_lang)
      /\ BareLanguage(calls[1].target_lang) = BareLanguage(calls[2].target_lang)
      /\ AllowListed(calls[1].options) = AllowListed(calls[2].options) )
    => derived[1] = derived[2]

\* the fields of a request that take part in its key, as the code normalizes them
KeyFields(c) ==
    << preprocess_text(c.text), normalize_language_code(c.source_lang),
       normalize_language_code(c.target_lang), AllowListed(c.options) >>

(***************************************************************************)
(* C14: two requests that differ in the normalized text, the normalized    *)
(* source language, the normalized target language or the allow-listed     *)
(* options hash different strings: the "|"-joined key string is an         *)
(* injective encoding of its fields.                                       *)
(***************************************************************************)
C14_KeySensitivity ==
    (Len(calls) = 2 /\ KeyFields(calls[1]) # KeyFields(calls[2]))
    => derived[1] # derived[2]

\* every thread has made its calls and is back in its caller
AllReturned == \A t \in Threads : threads[t].pc = "idle" /\ threads[t].n = ThreadCalls

(***************************************************************************)
(* C15: when the get calls that several threads make concurrently on one   *)
(* instance have all completed, hits + misses is the number of those get   *)
(* calls: no counter update is lost.                                       *)
(***************************************************************************)
C15_NoLostCounterUpdates ==
    (AllReturned /\ \A t \in Threads : threads[t].op = "get" /\ threads[t].error = "")
    => stats.hits + stats.misses = gets

(***************************************************************************)
(* C16: under every interleaving of the calls of several threads on one    *)
(* instance no call raises because of the interleaving, and no get sees an *)
(* index entry whose file is not yet written or already deleted.           *)
(***************************************************************************)
C16_NoTornStates ==
    \A t \in Threads : threads[t].error = "" /\ ~threads[t].torn

(***************************************************************************)
(* C17: when the set calls that several threads make concurrently with     *)
(* distinct keys on one instance have all completed, at most max_size      *)
(* entries are stored.                                                     *)
(***************************************************************************)
C17_CapacityBoundUnderConcurrency ==
    ( /\ AllReturned
      /\ \A t \in Threads : threads[t].op = "set" /\ threads[t].error = ""
      /\ \A t, u \in Threads : t # u => Key(threads[t].req) # Key(threads[u].req) )
    => Len(Stored) <= max_size

\* C18: translate stores a provider result under the arguments of its lookup, for
\* every source language and "auto" too, so that the same call made again at once
\* (the store wrote the entry, no time passed, nothing happened outside) is answered from
\* the cache, cached, without a call of the provider
C18_StoreFollowsLookup ==
    [][ /\ TranslateStore => (ret'.op = "set" /\ ret'.req = translator.lookup)
        /\ \A inp \in TranslateInputs :
             ( /\ translator.asked = inp
               /\ translator.path = "miss" /\ translator.out.kind = "result"
               /\ ret.op = "set" /\ ~ret.raised /\ ret.path = "ok"
               /\ translator.finished = <<now, faults>>
               /\ TranslateLookup(inp) )
             => ( /\ translator'.pc = "idle"
                  /\ translator'.path = "hit"
                  /\ translator'.out = Result(translator.out.text, TRUE)
                  /\ translator'.provider_calls = translator.provider_calls ) ]_vars

\* translate(inp) reaches its cache lookup: the text is not blank, the language
\* codes are valid and use_cache is set
LooksUp(inp) ==
    LET source == IF inp.source_lang # None THEN inp.source_lang[1]
                  ELSE default_source_lang
        target == IF inp.target_lang # None THEN inp.target_lang[1]
                  ELSE default_target_lang
    IN  /\ inp.use_cache
        /\ Strip(inp.text) # <<>>
        /\ source = <<"a","u","t","o">> \/ validate_language_code(source)
        /\ validate_language_code(target)

\* the text translate_batch is looking up or storing
BatchText ==
    LET b == translator.batch
    IN  IF translator.pc = "489" THEN b.inp.texts[b.i]
        ELSE b.inp.texts[b.uncached_indices[b.j]]

\* C19: no failure of the cache reaches the caller of translate or translate_batch:
\* when cache.get raises the call goes on to the provider as on a miss, when
\* cache.set raises the call returns the provider's result, and the only
\* exceptions a call ends with are those of the language check and the provider
C19_CacheFailuresNeverReachCaller ==
    [][ /\ \A inp \in TranslateInputs :
             (LooksUp(inp) /\ TranslateLookup(inp) /\ ret'.raised)
             => translator'.pc = "436"
        /\ (BatchLookup /\ Strip(BatchText) # <<>> /\ ret'.raised)
             => /\ translator'.pc \in {"489", "526"}
                /\ translator'.batch.uncached_indices =
                     Append(translator.batch.uncached_indices, translator.batch.i)
        /\ (TranslateStore /\ ret'.raised)
             => translator'.out = Result(translator.translated, FALSE)
        /\ (BatchStore /\ ret'.op = "set" /\ ret'.raised /\ translator'.pc = "idle")
             => translator'.out = Results(translator.batch.results)
        /\ translator'.out.kind = "raised"
             => translator'.out.error \in {"LanguageNotSupportedError", "APIError"} ]_vars

\* C20: stats() can be called on every constructed instance: it returns a record
\* whose hits and misses are the counters of the instance and whose hit rate is
\* hits / (hits + misses), 0 when there were no lookups, and it changes neither
\* the stored entries nor the counters
C20_StatsInvocable ==
    [][ Stats =>
          /\ ~ret'.raised
          /\ ret'.result # None
          /\ ret'.result[1].hits = stats.hits
          /\ ret'.result[1].misses = stats.misses
          /\ ret'.result[1].hit_rate =
               IF stats.hits + stats.misses = 0 THEN <<0, 1>>
               ELSE <<stats.hits, stats.hits + stats.misses>>
          /\ Stored' = Stored
          /\ stats' = stats ]_vars

(***************************************************************************)
(* C21: on every backend the total-entries figure the instance reports     *)
(* (the counter of the memory and file backends, the row count of the      *)
(* SQLite backend) is the number of entries in its map, index or table,    *)
(* after every set, get, clear and construction.                           *)
(***************************************************************************)
C21_ReportedEntryCount ==
    alive => StatsMethod.total_entries = Len(Stored)

(***************************************************************************)
(* C22: on the file and SQLite backends the construction of a new instance *)
(* over the location of an old one keeps every entry that is stored and    *)
(* not expired, as it was stored, and starts hits and misses at 0; a get   *)
(* of such an entry on the new instance is a hit that returns it.          *)
(***************************************************************************)
\* what a hit on the stored entry of key returns
StoredText(key) ==
    IF kind = "file" THEN TextRead(FileContent(files, key))
    ELSE Stored[PosOf(Stored, key)].translated

C22_DurabilityAcrossRestart ==
    [][ /\ (kind \in {"file", "sqlite"} /\ ConstructStep) =>
             /\ \A i \in 1..Len(Stored) :
                  ~_is_expired(Stored[i].timestamp) =>
                    /\ \E j \in 1..Len(Stored') : Stored'[j] = Stored[i]
                    /\ kind = "file" =>
                         /\ FileExists(files', Stored[i].key)
                         /\ FileContent(files', Stored[i].key) =
                              FileContent(files, Stored[i].key)
             /\ stats'.hits = 0 /\ stats'.misses = 0
        /\ \A req \in Requests :
             ( /\ kind \in {"file", "sqlite"}
               /\ ret.op = "construct" /\ ~ret.raised
               /\ Key(req) \in StoredKeys /\ Age(Key(req)) <= ttl
               /\ GetStep(req) )
             => ( /\ ret'.result = Some(StoredText(Key(req)))
                  /\ stats'.hits = 1 /\ stats'.misses = 0 ) ]_vars

\* a get on an instance constructed over a populated directory (its entry counter
\* is still 0) has returned an entry that an earlier instance stored
C22_Witness ==
    /\ kind = "file"
    /\ ret.op = "get" /\ ret.path = "hit"
    /\ Key(ret.req) \in StoredKeys
    /\ stats.total_entries = 0 /\ stats.hits = 1 /\ stats.misses = 0

(***************************************************************************)
(* C23: a FileCache and a SQLiteCache that start empty with the same       *)
(* max_size and ttl and are given the same sequence of get, set, clear()   *)
(* and clear(pattern) calls, no two keys being stored at the same time,    *)
(* give the same answers: each get returns the same result and each clear  *)
(* the same count.                                                         *)
(***************************************************************************)
C23_BackendEquivalence ==
    ~pair.tied => pair.same

(***************************************************************************)
(* C24: a FileCache.set or SQLiteCache.set that finds the store at or      *)
(* above max_size removes exactly one entry, an entry with the smallest    *)
(* timestamp of all stored entries (on the file backend its file and its   *)
(* index record); every other entry is left as it was.                     *)
(***************************************************************************)
C24_EvictionVictim ==
    [][ \A input \in SetInputs :
          ( /\ kind \in {"file", "sqlite"}
            /\ Len(Stored) >= max_size
            /\ SetStep(input[1], input[2]) )
          => \E victim \in StoredKeys :
               LET key == Key(input[1])
               IN  /\ \A i \in 1..Len(Stored) :
                        Stored[PosOf(Stored, victim)].timestamp <= Stored[i].timestamp
                   /\ ret'.evicted = {victim}
                   /\ StoredKeys' = (StoredKeys \ {victim}) \cup {key}
                   /\ \A k \in StoredKeys \ {victim, key} :
                        /\ Stored'[PosOf(Stored', k)] = Stored[PosOf(Stored, k)]
                        /\ kind = "file" =>
                             /\ FileExists(files', k) = FileExists(files, k)
                             /\ FileExists(files, k) =>
                                  FileContent(files', k) = FileContent(files, k)
                   /\ (kind = "file" /\ victim # key) => ~FileExists(files', victim) ]_vars

\* the set of hello at time 2 evicted bye, stored at 0, and kept yes, stored at 1
C24_Witness ==
    /\ kind \in {"file", "sqlite"}
    /\ ret.op = "set" /\ ret.req = ReqHello /\ ret.evicted = {Key(ReqBye)}
    /\ StoredKeys = {Key(ReqYes), Key(ReqHello)}
    /\ Stored[PosOf(Stored, Key(ReqYes))].timestamp = 1
    /\ now = 2
    /\ kind = "file" => ~FileExists(files, Key(ReqBye))

(***************************************************************************)
(* C25: right after a FileCache or a SQLiteCache is constructed over an    *)
(* existing directory or database, no entry that is expired under the      *)
(* instance's ttl is left in the index or the table, the files of the      *)
(* swept index entries are gone, and every entry that is not expired is    *)
(* kept.                                                                   *)
(***************************************************************************)
\* the entries at the location the constructor is given
Persisted == IF kind = "file" THEN _load_index ELSE db

C25_StartupSweep ==
    [][ ( /\ kind \in {"file", "sqlite"}
          /\ ConstructStep /\ ~ret'.raised )
        => /\ \A i \in 1..Len(Stored') : ~_is_expired(Stored'[i].timestamp)
           /\ \A i \in 1..Len(Persisted) :
                IF _is_expired(Persisted[i].timestamp)
                THEN /\ Persisted[i].key \notin StoredKeys'
                     /\ kind = "file" => ~FileExists(files', Persisted[i].key)
                ELSE /\ \E j \in 1..Len(Stored') : Stored'[j] = Persisted[i]
                     /\ kind = "file" =>
                          FileExists(files', Persisted[i].key)
                            = FileExists(files, Persisted[i].key)
           /\ Persisted' = Stored' ]_vars

\* the construction swept an expired entry and kept one that is not
C25_Witness ==
    /\ kind \in {"file", "sqlite"}
    /\ ret.op = "construct" /\ ~ret.raised
    /\ ret.evicted # {}
    /\ Stored # <<>>
    /\ ret.evicted \cap StoredKeys = {}
    /\ kind = "file" => \A k \in ret.evicted : ~FileExists(files, k)

(***************************************************************************)
(* C26: on every backend, a set for a key that is already stored leaves    *)
(* exactly one entry for the key, holding the new translated text and the  *)
(* time of this set as its timestamp; in the MemoryCache the entry is      *)
(* then the most recently used one.                                        *)
(***************************************************************************)
\* the entries stored for key, and the text the entry of key holds
EntriesOf(key) == { i \in 1..Len(Stored) : Stored[i].key = key }
EntryText(key) ==
    IF kind = "file" THEN FileContent(files, key)
    ELSE Stored[PosOf(Stored, key)].translated

C26_OverwriteSemantics ==
    [][ \A input \in SetInputs :
          ( /\ Key(input[1]) \in StoredKeys
            /\ SetStep(input[1], input[2]) )
          => LET key == Key(input[1])
             IN  /\ Cardinality(EntriesOf(key)') = 1
                 /\ kind = "file" => Cardinality({ f \in files' : f.key = key }) = 1
                 /\ EntryText(key)' = input[2]
                 /\ Stored'[PosOf(Stored', key)].timestamp = now
                 /\ kind = "memory" => cache'[Len(cache')].key = key ]_vars

\* hello was the only entry of a store of size 1 and has been set again, at a
\* later time and with another text
C26_Witness ==
    /\ ret.op = "set" /\ ret.req = ReqHello /\ ret.translated = WithCR
    /\ ret.evicted = {Key(ReqHello)}
    /\ now > 0
    /\ Cardinality(EntriesOf(Key(ReqHello))) = 1
    /\ EntryText(Key(ReqHello)) = WithCR
    /\ Stored[PosOf(Stored, Key(ReqHello))].timestamp = now

(***************************************************************************)
(* C27: on every backend, a get that hits and a get of a key that is not   *)
(* stored leave the stored keys, every stored text and every stored        *)
(* timestamp as they were (the MemoryCache changes the order only); a hit  *)
(* does not renew the timestamp of the entry.                              *)
(***************************************************************************)
C27_NonDestructiveRead ==
    [][ \A req \in Requests :
          ( /\ GetStep(req)
            /\ ret'.path \in {"hit", "absent"} )
          => /\ StoredKeys' = StoredKeys
             /\ Len(Stored') = Len(Stored)
             /\ \A k \in StoredKeys :
                  Stored'[PosOf(Stored', k)] = Stored[PosOf(Stored, k)]
             /\ kind # "memory" => Stored' = Stored
             /\ files' = files ]_vars

\* a hit on an entry older than the clock: it still has the timestamp of its set
C27_Witness ==
    /\ ret.op = "get" /\ ret.path = "hit"
    /\ Key(ret.req) \in StoredKeys
    /\ Age(Key(ret.req)) > 0
    /\ Len(Stored) = 2

(***************************************************************************)
(* C28: on every backend, a set for a key that is already stored, made     *)
(* when the store holds exactly max_size entries, removes no entry of      *)
(* another key: the set of stored keys is the same after the call.         *)
(***************************************************************************)
C28_OverwriteEvictsNoOtherKey ==
    [][ \A input \in SetInputs :
          ( /\ Key(input[1]) \in StoredKeys
            /\ Len(Stored) = max_size
            /\ SetStep(input[1], input[2]) )
          => StoredKeys' = StoredKeys ]_vars

(***************************************************************************)
(* C29: when the write of the entry file fails during FileCache.set, the   *)
(* call changes nothing: every entry that was stored and retrievable       *)
(* before the call is still stored, with its file, after it, and the       *)
(* index in memory still equals the index on disk, also when the store     *)
(* was at capacity.                                                        *)
(***************************************************************************)
C29_FailedSetChangesNothing ==
    [][ \A input \in SetInputs :
          ( /\ kind = "file"
            /\ index_file.state \in {"mapping", "missing"} /\ _load_index = index
            /\ SetStep(input[1], input[2])
            /\ ret'.path = "IOError" )
          => /\ \A i \in 1..Len(index) :
                  FileExists(files, index[i].key) =>
                    /\ \E j \in 1..Len(index') : index'[j] = index[i]
                    /\ FileExists(files', index[i].key)
                    /\ FileContent(files', index[i].key) = FileContent(files, index[i].key)
             /\ _load_index' = index' ]_vars

(***************************************************************************)
(* C30: on the FileCache, after a construction over any state of the       *)
(* cache directory (also one whose index file is missing or damaged while  *)
(* entry files are there) and after every get, set and clear, the keys of  *)
(* the entry files in the directory are the keys of the index: no index    *)
(* record is without its file and no entry file is without its record.     *)
(***************************************************************************)
\* the keys of the <key>.txt files are the keys of the index
IndexMatchesFiles == KeysOf(index) = { f.key : f \in files }

\* a get, set or clear that returned, made in a state where index and files match
C30_CallKeepsMatch ==
    /\ kind = "file" /\ medium = "ok"
    /\ IndexMatchesFiles
    /\ \/ \E req \in Requests : GetStep(req)
       \/ \E input \in SetInputs : SetStep(input[1], input[2])
       \/ \E pattern \in {None} \cup { Some(p) : p \in Patterns } : ClearStep(pattern)

C30_IndexFileCorrespondence ==
    [][ /\ (kind = "file" /\ medium = "ok" /\ ConstructStep /\ ~ret'.raised)
             => IndexMatchesFiles'
        /\ C30_CallKeepsMatch => IndexMatchesFiles' ]_vars

(***************************************************************************)
(* C31: when a FileCache or SQLiteCache is constructed with max_size m     *)
(* over a location that holds more than m entries that are not expired,    *)
(* the first set that completes on the new instance leaves at most m       *)
(* entries stored.                                                         *)
(***************************************************************************)
C31_CapacityAfterReopen ==
    [][ \A input \in SetInputs :
          ( /\ kind \in {"file", "sqlite"}
            /\ ret.op = "construct" /\ ~ret.raised
            /\ Len(Stored) > max_size
            /\ \A i \in 1..Len(Stored) : ~_is_expired(Stored[i].timestamp)
            /\ SetStep(input[1], input[2])
            /\ ret'.path = "ok" )
          => Len(Stored') <= max_size ]_vars

(***************************************************************************)
(* C32: on every backend, when the set of a key by one thread has          *)
(* completed while the get of the same key by another thread is in         *)
(* progress, the get does not take the freshly written entry away: the     *)
(* key stays stored with the text and the timestamp of that set (nothing   *)
(* else evicts or clears, and the ttl has not elapsed).                    *)
(***************************************************************************)
\* the entry of req is the one the completed set of thread t wrote
FreshFrom(t, req) ==
    /\ threads[t].op = "set" /\ threads[t].pc = "idle" /\ threads[t].error = ""
    /\ threads[t].req = req
    /\ Key(req) \in StoredKeys
    /\ Stored[PosOf(Stored, Key(req))].timestamp = threads[t].timestamp
    /\ ~_is_expired(threads[t].timestamp)
    /\ IF kind = "file"
       THEN /\ FileExists(files, Key(req))
            /\ FileContent(files, Key(req)) = TextWrite(threads[t].translated)
       ELSE Stored[PosOf(Stored, Key(req))].translated = threads[t].translated

C32_FreshEntrySurvivesRead ==
    [][ \A setter \in Threads, getter \in Threads, req \in ThreadRequests :
          ( /\ setter # getter
            /\ FreshFrom(setter, req)
            /\ threads[getter].op = "get" /\ threads[getter].req = req
            /\ threads[getter].pc # "idle"
            /\ threads'[getter] # threads[getter] )
          => FreshFrom(setter, req)' ]_vars

(***************************************************************************)
(* C33: the list Translator.translate_batch returns has one element per    *)
(* text, element i is the result for texts[i] (the empty result for an     *)
(* empty or whitespace-only text, a translation otherwise), and no         *)
(* element is the None placeholder.                                        *)
(***************************************************************************)
\* the last call was a translate_batch that returned its list
BatchReturned ==
    /\ translator.pc = "idle"
    /\ translator.path = "batch"
    /\ translator.out.kind = "results"

C33_BatchAligned ==
    BatchReturned =>
      LET texts == translator.batch.inp.texts
          results == translator.out.results
      IN  /\ Len(results) = Len(texts)
          /\ \A i \in 1..Len(results) : results[i] # None
          /\ \A i \in 1..Len(texts) :
               (i <= Len(results) /\ results[i] # None) =>
                 IF texts[i] = <<>> \/ Strip(texts[i]) = <<>>
                 THEN results[i][1] = TranslationResult(<<>>, FALSE)
                 ELSE results[i][1].text # <<>>

====
